---- MODULE Spec2Model ----
(***************************************************************************)
(* A model of gp_parser (src/gp_parser.cpp, src/gp_parser.h): the decoder  *)
(* of Guitar Pro 5 files.  The state machines of the module:               *)
(*   SpecCursor   the cursor operations, applied in any order to an        *)
(*                explicit byte buffer;                                     *)
(*   Spec         the constructor Parser::Parser, one action per pass,     *)
(*                few values for every field;                              *)
(*   SpecTracks   the constructor on files that differ in their counts     *)
(*                and in the channels their tracks name;                   *)
(*   SpecMeasure  the constructor on files of one measure of one track     *)
(*                that differ in the beats of the measure;                 *)
(*   SpecHeaders  the constructor on files that differ in the number of    *)
(*                their measure headers and in the time signatures;        *)
(*   SpecDuration readDuration and getTime on their own;                   *)
(*   SpecKey      readKeySignature on every byte;                          *)
(*   SpecVoices   the constructor on files of one measure whose beats      *)
(*                include a tuplet and a rest with a type byte;            *)
(*   SpecStrings  one beat with every string mask on tracks of 0 to 7      *)
(*                strings;                                                 *)
(*   SpecTempo    measures of two tracks with mix changes;                 *)
(*   SpecBend     readBend on its own;                                     *)
(*   SpecTies     one measure with tied notes in both voices;              *)
(*   SpecChord    readChord on its own;                                    *)
(*   SpecStarts   one measure with beats long enough to carry the start    *)
(*                of a voice past INT32_MAX.                               *)
(* Bytes are numbers 0..255, strings are sequences of bytes.  An int32 is  *)
(* an integer; a std::size_t made from a negative int is kept as that      *)
(* negative integer and read as the value 2^64 + i where the code does.    *)
(***************************************************************************)
EXTENDS Integers, Sequences, FiniteSets, TLC

VARIABLES
    fileBuffer,       \* Parser::fileBuffer: the bytes of the file
    bufferPosition,   \* Parser::bufferPosition
    status,           \* "running", "failed" (an exception left the code), "crashed"
    lastOp,           \* SpecCursor: the last cursor operation, what it read and returned
    pc,               \* the pass of Parser::Parser that runs next ("done": it returned)
    zeroed,           \* every byte read after the version field was 0
    version,          \* Parser::version
    versionIndex,     \* Parser::versionIndex (-1: not set)
    major,            \* Parser::major
    minor,            \* Parser::minor
    attributes,       \* title .. instructions: the lengths of the nine strings
    comments,         \* Parser::comments: the lengths of the strings
    lyricTrack,       \* Parser::lyricTrack
    lyric,            \* Parser::lyric
    tempoValue,       \* Parser::tempoValue
    globalKeySignature, \* Parser::globalKeySignature
    channels,         \* Parser::channels
    measures,         \* Parser::measures
    trackCount,       \* Parser::trackCount
    measureHeaders,   \* Parser::measureHeaders
    tracks,           \* Parser::tracks
    timeSignature,    \* the local timeSignature of the header loop
    loc               \* the locals of the body loop, readMeasure and readChannel

cursorVars == <<fileBuffer, bufferPosition, status, lastOp>>

docVars == <<pc, zeroed, version, versionIndex, major, minor, attributes, comments,
             lyricTrack, lyric, tempoValue, globalKeySignature, channels, measures,
             trackCount, measureHeaders, tracks, timeSignature, loc>>

vars == <<fileBuffer, bufferPosition, status, lastOp, pc, zeroed, version, versionIndex,
          major, minor, attributes, comments, lyricTrack, lyric, tempoValue,
          globalKeySignature, channels, measures, trackCount, measureHeaders, tracks,
          timeSignature, loc>>

(***************************************************************************)
(* Bounds and input sets                                                   *)
(***************************************************************************)
\* SpecCursor: a buffer is an optional int32 field followed by at most MaxTail bytes
MaxTail == 3

\* the int32 fields a buffer of SpecCursor may start with
HeadInputs == {-1, 0, 1, 2, 3}

\* the byte values a buffer of SpecCursor is made of
ByteInputs == {0, 1, 255}

\* what a read of an index outside the buffer may give back when it returns
GarbageBytes == {0, 171}

\* the spans given to skip, readString and readStringByte in SpecCursor
SkipInputs == {0, 1, 4}

SpanInputs == {0, 1, 2}

(***************************************************************************)
(* Helpers                                                                 *)
(***************************************************************************)
Min(a, b) == IF a <= b THEN a ELSE b

\* static_cast<int8_t> of a byte
ToInt8(b) == IF b >= 128 THEN b - 256 ELSE b

\* x & mask # 0 for a one-bit mask
Bit(x, mask) == (x \div mask) % 2 = 1

RECURSIVE SeqsUpTo(_, _)
SeqsUpTo(S, n) ==
    IF n = 0 THEN {<<>>}
    ELSE LET shorter == SeqsUpTo(S, n - 1)
         IN  shorter \cup {Append(s, x) : s \in {t \in shorter : Len(t) = n - 1}, x \in S}

\* the little-endian bytes of an int32 v, -2^24 <= v < 2^24
IntLE(v) ==
    LET w == IF v < 0 THEN v + 16777216 ELSE v
    IN  <<w % 256, (w \div 256) % 256, (w \div 65536) % 256, IF v < 0 THEN 255 ELSE 0>>

(***************************************************************************)
(* The cursor (gp_parser.cpp 198-281).  Each operation is an operator of   *)
(* the buffer, the position and g, the byte a read outside the buffer      *)
(* gives when it returns at all.  It yields                                *)
(*   val, str   the value returned (a number or a string); strLen is the   *)
(*              string's length, and str holds its bytes that lie inside   *)
(*              the buffer (the ones read outside it are all g)            *)
(*   pos        the new position                                           *)
(*   readTo     one past the highest index read (pos when nothing is read) *)
(*   thrown     whether an exception left the operation                    *)
(***************************************************************************)
\* fileBuffer[i]: std::vector::operator[] checks nothing
ByteAt(buf, i, g) == IF i >= 0 /\ i < Len(buf) THEN buf[i + 1] ELSE g

readUnsignedByte(buf, pos, g) ==
    [val |-> ByteAt(buf, pos, g), str |-> <<>>, strLen |-> 0, pos |-> pos + 1,
     readTo |-> pos + 1, thrown |-> FALSE]

\* a read of the signed byte at the position that does not move the position
readBytePeek(buf, pos, g) ==
    [val |-> ToInt8(ByteAt(buf, pos, g)), str |-> <<>>, strLen |-> 0, pos |-> pos,
     readTo |-> pos + 1, thrown |-> FALSE]

readByte(buf, pos, g) ==
    [val |-> ToInt8(ByteAt(buf, pos, g)), str |-> <<>>, strLen |-> 0, pos |-> pos + 1,
     readTo |-> pos + 1, thrown |-> FALSE]

\* the four bytes, little-endian, as a signed 32-bit value
readInt(buf, pos, g) ==
    LET b0 == ByteAt(buf, pos, g)
        b1 == ByteAt(buf, pos + 1, g)
        b2 == ByteAt(buf, pos + 2, g)
        b3 == ByteAt(buf, pos + 3, g)
    IN  [val |-> ToInt8(b3) * 16777216 + b2 * 65536 + b1 * 256 + b0,
         str |-> <<>>, strLen |-> 0, pos |-> pos + 4, readTo |-> pos + 4,
         thrown |-> FALSE]

\* readString(size, len), both std::size_t.  A negative size or len stands for
\* 2^64 + it: it is > 0, and above vector<char>::max_size(), so that
\* std::vector<char>(bytesToRead) throws std::length_error before anything is read.
\* Otherwise the first len bytes are kept when len <= bytesToRead, else the first size.
\* a readString that advances by the bytes it keeps
readStringKept(buf, pos, size, len, g) ==
    LET bytesToRead == IF size # 0 THEN size ELSE len
        kept == IF len >= 0 /\ len <= bytesToRead THEN len ELSE size
    IN  IF bytesToRead < 0
        THEN [val |-> 0, str |-> <<>>, strLen |-> 0, pos |-> pos, readTo |-> pos,
              thrown |-> TRUE]
        ELSE [val |-> 0,
              str |-> [i \in 1..Min(kept, Len(buf) - pos) |-> ByteAt(buf, pos + i - 1, g)],
              strLen |-> kept,
              pos |-> pos + kept,
              readTo |-> pos + bytesToRead,
              thrown |-> FALSE]

readString(buf, pos, size, len, g) ==
    LET bytesToRead == IF size # 0 THEN size ELSE len
        kept == IF len >= 0 /\ len <= bytesToRead THEN len ELSE size
    IN  IF bytesToRead < 0
        THEN [val |-> 0, str |-> <<>>, strLen |-> 0, pos |-> pos, readTo |-> pos,
              thrown |-> TRUE]
        ELSE [val |-> 0,
              str |-> [i \in 1..Min(kept, Len(buf) - pos) |-> ByteAt(buf, pos + i - 1, g)],
              strLen |-> kept,
              pos |-> pos + bytesToRead,
              readTo |-> pos + bytesToRead,
              thrown |-> FALSE]

\* readString(size): len = size
readString1(buf, pos, size, g) == readString(buf, pos, size, size, g)

readStringByte(buf, pos, size, g) ==
    LET p == readUnsignedByte(buf, pos, g)
        s == readString(buf, p.pos, size, p.val, g)
    IN  [s EXCEPT !.readTo = IF s.readTo > p.readTo THEN s.readTo ELSE p.readTo]

\* a read that gives the whole int32 to readStringByte as the span
readStringByteSizeOfWholeInteger(buf, pos, g) ==
    LET n == readInt(buf, pos, g)
    IN  readStringByte(buf, n.pos, n.val, g)

readStringByteSizeOfInteger(buf, pos, g) ==
    LET n == readInt(buf, pos, g)
    IN  readStringByte(buf, n.pos, n.val - 1, g)

readStringInteger(buf, pos, g) ==
    LET n == readInt(buf, pos, g)
        s == readString1(buf, n.pos, n.val, g)
    IN  [s EXCEPT !.readTo = IF s.readTo > n.readTo THEN s.readTo ELSE n.readTo]

skip(buf, pos, n) ==
    [val |-> 0, str |-> <<>>, strLen |-> 0, pos |-> pos + n, readTo |-> pos,
     thrown |-> FALSE]

(***************************************************************************)
(* SpecCursor: a short buffer (FileInputs), any sequence of cursor         *)
(* operations.  An operation that reads an index outside the buffer has    *)
(* undefined behaviour: it returns with some byte g there, or the process  *)
(* dies ("crashed").  Only a C++ exception makes status "failed".          *)
(***************************************************************************)
\* what is known of the last note read with a fret field (flag 0x20): none yet
NoFret == [string |-> 0, tied |-> FALSE, found |-> FALSE, value |-> 0, outside |-> FALSE]

\* the locals of the constructor and of the functions it is in: the loop indices
\* i and j, tempo, start (178-181), the voice, k, beats and start of readMeasure
\* (418-421), gm the gmChannel1 of each call of readChannel with the positions it
\* started and ended at, fret the value at line 721 of the last beat read, bank
\* the bytes readChannels decoded, headers the bytes each pass of the header
\* loop decoded, gm2 the gmChannel2 of each call of readChannel, beat the bytes
\* the last call of readBeat decoded, mix the tempo int32 of every call of
\* readMixChange with the index i of the measure it was read in
NoLoc == [i |-> 0, j |-> 0, tempo |-> [value |-> 0], start |-> 0, at |-> "idle",
          voice |-> 0, k |-> 0, beats |-> 0, vstart |-> 0, gm |-> <<>>, chFrom |-> 0,
          chTo |-> 0, fret |-> NoFret, bank |-> <<>>, headers |-> <<>>, gm2 |-> <<>>,
          beat |-> <<>>, mix |-> <<>>]

\* the members of Parser before the constructor has assigned them

DocUnset ==
    /\ pc = "version"
    /\ zeroed = TRUE
    /\ version = <<>>
    /\ versionIndex = -1
    /\ major = 0
    /\ minor = 0
    /\ attributes = <<>>
    /\ comments = <<>>
    /\ lyricTrack = 0
    /\ lyric = [from |-> 0, lyric |-> 0]
    /\ tempoValue = 0
    /\ globalKeySignature = 0
    /\ channels = <<>>
    /\ measures = 0
    /\ trackCount = 0
    /\ measureHeaders = <<>>
    /\ tracks = <<>>
    /\ timeSignature = [numerator |-> 0,
                        denominator |-> [value |-> 0,
                                         division |-> [enters |-> 0, times |-> 0]]]
    /\ loc = NoLoc

NoOp == [op |-> "none", from |-> 0, to |-> 0, readTo |-> 0, val |-> 0, str |-> <<>>,
         strLen |-> 0, arg |-> 0]

FileInputs ==
    LET tails == SeqsUpTo(ByteInputs, MaxTail)
    IN  tails \cup {IntLE(v) \o t : v \in HeadInputs, t \in tails}

InitCursor ==
    /\ fileBuffer \in FileInputs
    /\ bufferPosition = 0
    /\ status = "running"
    /\ lastOp = NoOp
    /\ DocUnset

\* the state after operation `name` gave r from position bufferPosition
Apply(name, arg, r) ==
    /\ lastOp' = [op |-> name, from |-> bufferPosition, to |-> r.pos,
                  readTo |-> r.readTo, val |-> r.val, str |-> r.str,
                  strLen |-> r.strLen, arg |-> arg]
    /\ bufferPosition' = r.pos
    /\ status' = IF r.thrown THEN "failed" ELSE "running"
    /\ UNCHANGED fileBuffer
    /\ UNCHANGED docVars

\* the other outcome of a read outside the buffer: the process dies in it
Crash(name, arg, r) ==
    /\ r.readTo > Len(fileBuffer)
    /\ ~r.thrown
    /\ lastOp' = [op |-> name, from |-> bufferPosition, to |-> bufferPosition,
                  readTo |-> r.readTo, val |-> 0, str |-> <<>>, strLen |-> 0,
                  arg |-> arg]
    /\ status' = "crashed"
    /\ UNCHANGED <<fileBuffer, bufferPosition>>
    /\ UNCHANGED docVars

\* the bytes a read outside the buffer may give: one choice when all reads are inside
Garbage(r0) == IF r0.readTo > Len(fileBuffer) THEN GarbageBytes ELSE {0}

\* an operation starts while nothing has failed; the model stops once the position
\* has left the buffer
CursorLive == status = "running" /\ bufferPosition <= Len(fileBuffer)

OpReadUnsignedByte ==
    /\ CursorLive
    /\ \E g \in Garbage(readUnsignedByte(fileBuffer, bufferPosition, 0)) :
         LET r == readUnsignedByte(fileBuffer, bufferPosition, g)
         IN  Apply("readUnsignedByte", 0, r) \/ Crash("readUnsignedByte", 0, r)

OpReadByte ==
    /\ CursorLive
    /\ \E g \in Garbage(readByte(fileBuffer, bufferPosition, 0)) :
         LET r == readByte(fileBuffer, bufferPosition, g)
         IN  Apply("readByte", 0, r) \/ Crash("readByte", 0, r)

OpReadInt ==
    /\ CursorLive
    /\ \E g \in Garbage(readInt(fileBuffer, bufferPosition, 0)) :
         LET r == readInt(fileBuffer, bufferPosition, g)
         IN  Apply("readInt", 0, r) \/ Crash("readInt", 0, r)

OpReadString ==
    /\ CursorLive
    /\ \E size \in SpanInputs :
         \E g \in Garbage(readString1(fileBuffer, bufferPosition, size, 0)) :
           LET r == readString1(fileBuffer, bufferPosition, size, g)
           IN  Apply("readString", size, r) \/ Crash("readString", size, r)

OpReadStringByte ==
    /\ CursorLive
    /\ \E size \in SpanInputs :
         \E g \in GarbageBytes :
           LET r == readStringByte(fileBuffer, bufferPosition, size, g)
           IN  /\ g \in Garbage(r)
               /\ Apply("readStringByte", size, r) \/ Crash("readStringByte", size, r)

OpReadStringByteSizeOfInteger ==
    /\ CursorLive
    /\ \E g \in GarbageBytes :
         LET r == readStringByteSizeOfInteger(fileBuffer, bufferPosition, g)
         IN  /\ g \in Garbage(r)
             /\ \/ Apply("readStringByteSizeOfInteger", 0, r)
                \/ Crash("readStringByteSizeOfInteger", 0, r)

OpReadStringInteger ==
    /\ CursorLive
    /\ \E g \in GarbageBytes :
         LET r == readStringInteger(fileBuffer, bufferPosition, g)
         IN  /\ g \in Garbage(r)
             /\ Apply("readStringInteger", 0, r) \/ Crash("readStringInteger", 0, r)

OpSkip ==
    /\ CursorLive
    /\ \E n \in SkipInputs :
         Apply("skip", n, skip(fileBuffer, bufferPosition, n))

NextCursor ==
    \/ OpReadUnsignedByte
    \/ OpReadByte
    \/ OpReadInt
    \/ OpReadString
    \/ OpReadStringByte
    \/ OpReadStringByteSizeOfInteger
    \/ OpReadStringInteger
    \/ OpSkip

SpecCursor == InitCursor /\ [][NextCursor]_vars

(***************************************************************************)
(* C1: truncated input is an explicit failure: an operation that would     *)
(* move the position past the end of the buffer ends in a failure raised   *)
(* at that operation, and no index at or beyond the buffer length is read. *)
(* The code checks no bound: this statement is violated (a skip past the   *)
(* end goes on running, a read past the end reads outside the vector).     *)
(***************************************************************************)
C1_TruncatedInputFails ==
    /\ lastOp.readTo <= Len(fileBuffer)
    /\ lastOp.to > Len(fileBuffer) => status = "failed"

(***************************************************************************)
(* The constructor Parser::Parser (gp_parser.cpp 16-196).  fileBuffer      *)
(* holds the 31 bytes of the version field; the bytes after it are chosen  *)
(* when they are read, field by field, from the input sets of a profile P  *)
(* (a record of sets), and handed to the cursor operations as the window   *)
(* of the file that starts at bufferPosition.  The file is taken to be     *)
(* long enough for every read (SpecCursor has the short ones).             *)
(***************************************************************************)
gateVars == <<version, versionIndex, major, minor>>

metaVars == <<attributes, comments, lyricTrack, lyric, tempoValue>>

tableVars == <<channels, measures, trackCount>>

\* "FICHIER GUITAR PRO v5.00" and "FICHIER GUITAR PRO v5.10" in ASCII
V500 == <<70, 73, 67, 72, 73, 69, 82, 32, 71, 85, 73, 84, 65, 82, 32, 80, 82, 79, 32,
          118, 53, 46, 48, 48>>

V510 == <<70, 73, 67, 72, 73, 69, 82, 32, 71, 85, 73, 84, 65, 82, 32, 80, 82, 79, 32,
          118, 53, 46, 49, 48>>

VERSIONS == <<V500, V510>>

Zeros(n) == [i \in 1..n |-> 0]

\* a gate that compares only as many characters as the literal has
isSupportedPrefix(ver) ==
    LET hits == {i \in 1..Len(VERSIONS) :
                   /\ Len(ver) >= Len(VERSIONS[i])
                   /\ SubSeq(ver, 1, Len(VERSIONS[i])) = VERSIONS[i]}
    IN  IF hits = {} THEN [ok |-> FALSE, index |-> -1]
        ELSE [ok |-> TRUE, index |-> (CHOOSE i \in hits : \A k \in hits : i <= k) - 1]

\* the first VERSIONS[i] that version.compare() finds equal; versionIndex = i (0-based)
isSupportedVersion(ver) ==
    LET hits == {i \in 1..Len(VERSIONS) : VERSIONS[i] = ver}
    IN  IF hits = {} THEN [ok |-> FALSE, index |-> -1]
        ELSE [ok |-> TRUE, index |-> (CHOOSE i \in hits : \A k \in hits : i <= k) - 1]

RECURSIVE Number(_)
\* std::stoi of a string of decimal digits
Number(digits) ==
    IF digits = <<>> THEN 0
    ELSE 10 * Number(SubSeq(digits, 1, Len(digits) - 1)) + (digits[Len(digits)] - 48)

\* the bytes of a field read by readStringByteSizeOfInteger: the int32 n, the
\* prefix byte p, then the bytes of the span (their values are not kept)
FieldBytes(f) ==
    IntLE(f.n) \o <<f.p>> \o Zeros(IF f.n - 1 > 0 THEN f.n - 1 ELSE IF f.n = 1 THEN f.p ELSE 0)

RECURSIVE readFields(_, _)
\* readStringByteSizeOfInteger on one field after the other, from position pos:
\* the position reached, whether one threw, and the lengths of the strings returned
readFields(fields, pos) ==
    IF fields = <<>> THEN [pos |-> pos, thrown |-> FALSE, lens |-> <<>>]
    ELSE LET r == readStringByteSizeOfInteger(FieldBytes(Head(fields)), 0, 0)
         IN  IF r.thrown THEN [pos |-> pos + r.pos, thrown |-> TRUE, lens |-> <<>>]
             ELSE LET rest == readFields(Tail(fields), pos + r.pos)
                  IN  [rest EXCEPT !.lens = <<r.strLen>> \o @]

FieldZero(f) == f.n = 0 /\ f.p = 0

\* lines 33-49: the version field and the gate
ReadVersion ==
    /\ pc = "version"
    /\ status = "running"
    /\ LET r == readStringByte(fileBuffer, bufferPosition, 30, 0)
           sup == isSupportedVersion(r.str)
       IN  /\ version' = r.str
           /\ bufferPosition' = r.pos
           /\ IF sup.ok
              THEN /\ versionIndex' = sup.index
                   /\ major' = Number(SubSeq(r.str, 21, 21))
                   /\ minor' = Number(SubSeq(r.str, 23, 24))
                   /\ pc' = "attributes"
                   /\ status' = "running"
              ELSE /\ status' = "failed"
                   /\ UNCHANGED <<versionIndex, major, minor, pc>>
    /\ UNCHANGED <<fileBuffer, lastOp, zeroed, metaVars, globalKeySignature, tableVars,
                   measureHeaders, tracks, timeSignature, loc>>

\* lines 51-63: the nine attribute strings, then the comments
ReadAttributes(P) ==
    /\ pc = "attributes"
    /\ status = "running"
    /\ \E in \in P.attributes :
         LET a == readFields(in.fields, bufferPosition)
             c == readFields(in.comments, a.pos + 4)
         IN  /\ Len(in.comments) = (IF in.commentLen > 0 THEN in.commentLen ELSE 0)
             /\ attributes' = a.lens
             /\ comments' = IF a.thrown THEN <<>> ELSE c.lens
             /\ bufferPosition' = IF a.thrown THEN a.pos ELSE c.pos
             /\ status' = IF a.thrown \/ c.thrown THEN "failed" ELSE "running"
             /\ pc' = IF a.thrown \/ c.thrown THEN pc ELSE "lyrics"
             /\ zeroed' = (zeroed /\ in.commentLen = 0
                           /\ \A i \in 1..Len(in.fields) : FieldZero(in.fields[i]))
    /\ UNCHANGED <<fileBuffer, lastOp, gateVars, lyricTrack, lyric, tempoValue,
                   globalKeySignature, tableVars, measureHeaders, tracks, timeSignature,
                   loc>>

RECURSIVE readIntStrings(_, _)
\* readInt then readStringInteger, pair after pair: the position reached, and
\* whether a readStringInteger threw (a negative length)
readIntStrings(ns, pos) ==
    IF ns = <<>> THEN [pos |-> pos, thrown |-> FALSE]
    ELSE LET n == Head(ns)
             r == readStringInteger(IntLE(n) \o Zeros(IF n > 0 THEN n ELSE 0), 0, 0)
         IN  IF r.thrown THEN [pos |-> pos + 4 + r.pos, thrown |-> TRUE]
             ELSE readIntStrings(Tail(ns), pos + 4 + r.pos)

\* lines 65-67 and readLyrics (302-315)
ReadLyrics(P) ==
    /\ pc = "lyrics"
    /\ status = "running"
    /\ \E in \in P.lyrics :
         LET r == readIntStrings(in.lens, bufferPosition + 4)
         IN  /\ Len(in.lens) = 5
             /\ lyricTrack' = in.track
             /\ lyric' = IF r.thrown THEN lyric
                         ELSE [from |-> in.from, lyric |-> in.lens[1]]
             /\ bufferPosition' = r.pos
             /\ status' = IF r.thrown THEN "failed" ELSE "running"
             /\ pc' = IF r.thrown THEN pc ELSE "pageSetup"
             /\ zeroed' = (zeroed /\ in.track = 0 /\ in.from = 0
                           /\ \A i \in 1..5 : in.lens[i] = 0)
    /\ UNCHANGED <<fileBuffer, lastOp, gateVars, attributes, comments, tempoValue,
                   globalKeySignature, tableVars, measureHeaders, tracks, timeSignature,
                   loc>>

\* (int8_t)x for an x in -128..255
WrapInt8(x) == IF x > 127 THEN x - 256 ELSE x

\* readKeySignature (328-335) on the byte b: keySignature is an int8_t
readKeySignature(b) ==
    LET keySignature == ToInt8(b)
    IN  IF keySignature < 0 THEN WrapInt8(7 - keySignature) ELSE keySignature

RECURSIVE SumSeq(_)
SumSeq(q) == IF q = <<>> THEN 0 ELSE Head(q) + SumSeq(Tail(q))

\* readPageSetup (318-325) with the eleven prefix bytes ps: the bytes consumed
readPageSetup(vi, ps) ==
    (IF vi > 0 THEN 49 ELSE 30) + SumSeq([i \in 1..Len(ps) |-> 4 + 1 + ps[i]])

\* lines 69-84: page setup, tempo, key signature, octave
ReadPageSetup(P) ==
    /\ pc = "pageSetup"
    /\ status = "running"
    /\ \E in \in P.pages :
         /\ Len(in.names) = 11
         /\ tempoValue' = in.tempo
         /\ globalKeySignature' = readKeySignature(in.key)
         /\ bufferPosition' = bufferPosition + readPageSetup(versionIndex, in.names) + 4
                                + (IF versionIndex > 0 THEN 1 ELSE 0) + 1 + 3 + 1
         /\ zeroed' = (zeroed /\ in.tempo = 0 /\ in.key = 0
                       /\ \A i \in 1..11 : in.names[i] = 0)
    /\ pc' = "channels"
    /\ UNCHANGED <<fileBuffer, lastOp, status, gateVars, attributes, comments,
                   lyricTrack, lyric, tableVars, measureHeaders, tracks, timeSignature,
                   loc>>

QUARTER_TIME == 960

QUARTER == 4

\* the number of slots readChannels decodes
ChannelSlots == 64

\* auto channel = Channel(): every member zero or empty
NewChannel ==
    [id |-> 0, name |-> "", program |-> 0, volume |-> 0, balance |-> 0, chorus |-> 0,
     reverb |-> 0, phaser |-> 0, tremolo |-> 0, bank |-> "", isPercussionChannel |-> FALSE,
     parameters |-> <<>>]

\* a loop body that takes the tenth slot to be the slot of index 10
readChannelSlotTenth(i, in) ==
    [NewChannel EXCEPT
       !.program = IF in.program < 0 THEN 0 ELSE in.program,
       !.volume = ToInt8(in.volume),
       !.balance = ToInt8(in.balance),
       !.chorus = ToInt8(in.chorus),
       !.reverb = ToInt8(in.reverb),
       !.phaser = ToInt8(in.phaser),
       !.tremolo = ToInt8(in.tremolo),
       !.bank = IF i = 10 THEN "default percussion bank" ELSE "default bank",
       !.isPercussionChannel = (i = 10)]

\* the body of the loop of readChannels (342-357) for slot i on the slot's bytes
readChannelSlot(i, in) ==
    [NewChannel EXCEPT
       !.program = IF in.program < 0 THEN 0 ELSE in.program,
       !.volume = ToInt8(in.volume),
       !.balance = ToInt8(in.balance),
       !.chorus = ToInt8(in.chorus),
       !.reverb = ToInt8(in.reverb),
       !.phaser = ToInt8(in.phaser),
       !.tremolo = ToInt8(in.tremolo),
       !.bank = IF i = 9 THEN "default percussion bank" ELSE "default bank",
       !.isPercussionChannel = (i = 9)]

\* readChannels (338-363): bank[i] holds the bytes of slot i, i in 0..63
readChannels(bank) == [k \in 1..ChannelSlots |-> readChannelSlot(k - 1, bank[k - 1])]

\* the bytes readChannels consumes: an int32, six bytes and skip(2) per slot
ChannelsBytes == ChannelSlots * (4 + 6 + 2)

SlotZero(in) ==
    /\ in.program = 0 /\ in.volume = 0 /\ in.balance = 0 /\ in.chorus = 0
    /\ in.reverb = 0 /\ in.phaser = 0 /\ in.tremolo = 0

\* the loop that runs after the counts are known, or after a loop has ended
AfterCounts(m, t, nHeaders, nTracks) ==
    IF nHeaders < m THEN "headers"
    ELSE IF nTracks < t THEN "tracks"
    ELSE "body"

\* lines 86-100: the channel bank, the two counts, the running time signature
ReadChannels(P) ==
    /\ pc = "channels"
    /\ status = "running"
    /\ \E bank \in P.banks, c \in P.counts :
         /\ channels' = readChannels(bank)
         /\ loc' = [loc EXCEPT !.bank = bank]
         /\ measures' = c.measures
         /\ trackCount' = c.trackCount
         /\ pc' = AfterCounts(c.measures, c.trackCount, 0, 0)
         /\ zeroed' = (zeroed /\ c.measures = 0 /\ c.trackCount = 0
                       /\ \A i \in 0..(ChannelSlots - 1) : SlotZero(bank[i]))
    /\ bufferPosition' = bufferPosition + ChannelsBytes + 42 + 4 + 4
    /\ timeSignature' = [numerator |-> 4,
                         denominator |-> [value |-> QUARTER,
                                          division |-> [enters |-> 1, times |-> 1]]]
    /\ UNCHANGED <<fileBuffer, lastOp, status, gateVars, metaVars, globalKeySignature,
                   measureHeaders, tracks>>

\* auto header = MeasureHeader(): every member zero or empty
NewMeasureHeader ==
    [number |-> 0, start |-> 0, repeatOpen |-> FALSE, repeatClose |-> 0,
     repeatAlternative |-> 0, tripletFeel |-> "", tempo |-> [value |-> 0],
     timeSignature |-> [numerator |-> 0,
                        denominator |-> [value |-> 0,
                                         division |-> [enters |-> 0, times |-> 0]]],
     marker |-> [measure |-> 0, title |-> 0, color |-> 0]]

\* a time signature that starts again from 4/4 at every header
nextTimeSignatureReset(ts, in) ==
    [ts EXCEPT
       !.numerator = IF Bit(in.flags, 1) THEN ToInt8(in.numerator) ELSE 4,
       !.denominator.value = IF Bit(in.flags, 2) THEN ToInt8(in.denominator) ELSE 4]

\* the running time signature after the flag byte and the two optional bytes (110-113)
nextTimeSignature(ts, in) ==
    [ts EXCEPT
       !.numerator = IF Bit(in.flags, 1) THEN ToInt8(in.numerator) ELSE @,
       !.denominator.value = IF Bit(in.flags, 2) THEN ToInt8(in.denominator) ELSE @]

\* one header of the loop at 101-142, i the 0-based index, ts the time signature
\* after this header's bytes, title the marker's title
readMeasureHeader(i, in, ts, title) ==
    [NewMeasureHeader EXCEPT
       !.number = i + 1,
       !.start = 0,
       !.tempo = [value |-> 120],
       !.repeatOpen = Bit(in.flags, 4),
       !.timeSignature = ts,
       !.repeatClose = IF Bit(in.flags, 8) THEN WrapInt8(in.repeatClose - 1) ELSE @,
       !.marker = IF Bit(in.flags, 32)
                  THEN [measure |-> i + 1, title |-> title, color |-> in.color]
                  ELSE @,
       !.repeatAlternative = IF Bit(in.flags, 16) THEN in.alternative ELSE @,
       !.tripletFeel = IF ToInt8(in.tripletFeel) = 1 THEN "eigth"
                       ELSE IF ToInt8(in.tripletFeel) = 2 THEN "sixteents"
                       ELSE "none"]

\* the bytes one pass of the header loop consumes, the marker's title apart
headerBytes(i, flags) ==
    (IF i > 0 THEN 1 ELSE 0) + 1
    + (IF Bit(flags, 1) THEN 1 ELSE 0)
    + (IF Bit(flags, 2) THEN 1 ELSE 0)
    + (IF Bit(flags, 8) THEN 1 ELSE 0)
    + (IF Bit(flags, 32) THEN 4 ELSE 0)
    + (IF Bit(flags, 16) THEN 1 ELSE 0)
    + (IF Bit(flags, 64) THEN 2 ELSE 0)
    + (IF Bit(flags, 1) \/ Bit(flags, 2) THEN 4 ELSE 0)
    + (IF ~Bit(flags, 16) THEN 1 ELSE 0)
    + 1

\* the bytes before the marker's title in one pass of the header loop
headerBytesToMarker(i, flags) ==
    (IF i > 0 THEN 1 ELSE 0) + 1
    + (IF Bit(flags, 1) THEN 1 ELSE 0)
    + (IF Bit(flags, 2) THEN 1 ELSE 0)
    + (IF Bit(flags, 8) THEN 1 ELSE 0)

\* one pass of the loop at 101-142
ReadMeasureHeader(P) ==
    /\ pc = "headers"
    /\ status = "running"
    /\ \E in \in P.headers :
         LET i == Len(measureHeaders)
             ts == nextTimeSignature(timeSignature, in)
             m == IF Bit(in.flags, 32) THEN readFields(<<in.marker>>, 0)
                  ELSE [pos |-> 0, thrown |-> FALSE, lens |-> <<0>>]
         IN  /\ timeSignature' = ts
             /\ IF m.thrown
                THEN /\ status' = "failed"
                     /\ bufferPosition' = bufferPosition + headerBytesToMarker(i, in.flags)
                                            + m.pos
                     /\ UNCHANGED <<measureHeaders, globalKeySignature, pc, loc>>
                ELSE /\ status' = "running"
                     /\ loc' = [loc EXCEPT !.headers = Append(@, in)]
                     /\ bufferPosition' = bufferPosition + headerBytes(i, in.flags) + m.pos
                     /\ measureHeaders' =
                          Append(measureHeaders, readMeasureHeader(i, in, ts, m.lens[1]))
                     /\ globalKeySignature' = IF Bit(in.flags, 64)
                                              THEN readKeySignature(in.key)
                                              ELSE globalKeySignature
                     /\ pc' = AfterCounts(measures, trackCount, i + 1, 0)
    /\ UNCHANGED <<fileBuffer, lastOp, zeroed, gateVars, metaVars, tableVars, tracks>>

\* C++ integer division: the quotient truncated towards zero (b > 0)
TDiv(a, b) == IF a >= 0 THEN a \div b ELSE -((-a) \div b)

RECURSIVE digitsFrom(_, _)
\* the loop of numOfDigits: one digit for every order with num / order != 0
digitsFrom(num, order) ==
    IF TDiv(num, order) = 0 THEN 0 ELSE 1 + digitsFrom(num, order * 10)

\* numOfDigits (939-946)
numOfDigits(num) == digitsFrom(num, 1)

DigitChars == <<"0", "1", "2", "3", "4", "5", "6", "7", "8", "9">>

RECURSIVE DecimalNat(_)
DecimalNat(n) ==
    IF n < 10 THEN <<DigitChars[n + 1]>>
    ELSE DecimalNat(n \div 10) \o <<DigitChars[(n % 10) + 1]>>

\* what sprintf("%d", v) writes, the terminating NUL apart
Decimal(v) == IF v < 0 THEN <<"-">> \o DecimalNat(-v) ELSE DecimalNat(v)

\* value.resize(numOfDigits(v)); sprintf(&value[0], "%d", v): the string keeps the
\* size it was given, and holds the first characters sprintf wrote
paramValue(v) == SubSeq(Decimal(v), 1, numOfDigits(v))

\* an id taken from the slot named, not from the size of the table
slotChannelId(chs, gmChannel1) == gmChannel1 + 1

\* line 405: the id of a channel that is exposed
newChannelId(chs, gmChannel1) == Len(chs) + 1

\* lines 394-409: the copy of the slot, with the id, name and parameters it is
\* given when its id is 0
exposedChannel(chs, gmChannel1, gmChannel2) ==
    [chs[gmChannel1 + 1] EXCEPT
       !.id = newChannelId(chs, gmChannel1),
       !.name = "TODO",
       !.parameters =
          @ \o <<[key |-> "gm channel 1", value |-> paramValue(gmChannel1)],
                 [key |-> "gm channel 2",
                  value |-> paramValue(IF gmChannel1 # 9 THEN gmChannel2
                                       ELSE gmChannel1)]>>]

\* lines 383-411, the body of the if: the table and the track's channelId after it
exposeChannel(chs, gmChannel1, gmChannel2) ==
    IF chs[gmChannel1 + 1].id = 0
    THEN [channels |-> Append(chs, exposedChannel(chs, gmChannel1, gmChannel2)),
          channelId |-> newChannelId(chs, gmChannel1)]
    ELSE [channels |-> chs, channelId |-> chs[gmChannel1 + 1].id]

\* a readChannel that takes slot 0 when gmChannel1 is outside the table
readChannelClamped(chs, channelId, r1, r2) ==
    exposeChannel(chs, IF r1 - 1 >= 0 /\ r1 - 1 < Len(chs) THEN r1 - 1 ELSE 0, r2 - 1)

\* readChannel (378-413) for a track whose channelId is channelId, on the two
\* int32 read (r1, r2): the table and the track's channelId after it
readChannel(chs, channelId, r1, r2) ==
    IF r1 - 1 >= 0 /\ r1 - 1 < Len(chs)
    THEN exposeChannel(chs, r1 - 1, r2 - 1)
    ELSE [channels |-> chs, channelId |-> channelId]

\* the two readInt of readChannel (380-381)
readChannelBytes == 4 + 4

\* auto track = Track(): every member zero or empty
NewTrack ==
    [channelId |-> 0, number |-> 0, name |-> 0, offset |-> 0,
     lyrics |-> [from |-> 0, lyric |-> 0], color |-> 0, strings |-> <<>>,
     measures |-> <<>>]

\* the strings of a track (154-162): tuning i is kept when stringCount > i
readStrings(stringCount, tunings) ==
    LET n == IF stringCount > 7 THEN 7 ELSE IF stringCount < 0 THEN 0 ELSE stringCount
    IN  [k \in 1..n |-> [number |-> k, value |-> tunings[k]]]

\* the bytes of one pass of the track loop before readChannel (147-163)
trackBytesToChannel(number, vi) ==
    1 + (IF number = 1 \/ vi = 0 THEN 1 ELSE 0) + (1 + 40) + 4 + 7 * 4 + 4

\* one pass of the loop at 145-174
ReadTrack(P) ==
    /\ pc = "tracks"
    /\ status = "running"
    /\ \E in \in P.tracks :
         LET number == Len(tracks) + 1
             c == readChannel(channels, NewTrack.channelId, in.gm1, in.gm2)
             track == [NewTrack EXCEPT
                         !.number = number,
                         !.lyrics = IF number = lyricTrack THEN lyric ELSE @,
                         !.name = Min(in.name, 40),
                         !.strings = readStrings(in.stringCount, in.tunings),
                         !.channelId = c.channelId,
                         !.offset = in.offset,
                         !.color = in.color]
             chFrom == bufferPosition + trackBytesToChannel(number, versionIndex)
             before == chFrom + readChannelBytes
                         + 4 + 4 + 4 + (IF versionIndex > 0 THEN 49 ELSE 44)
             tail == IF versionIndex > 0 THEN readFields(in.tail, before)
                     ELSE [pos |-> before, thrown |-> FALSE, lens |-> <<>>]
         IN  /\ Len(in.tunings) = 7
             /\ Len(in.tail) = 2
             /\ channels' = c.channels
             /\ bufferPosition' = tail.pos
             /\ loc' = [loc EXCEPT !.gm = Append(@, in.gm1 - 1),
                                   !.gm2 = Append(@, in.gm2 - 1),
                                   !.chFrom = chFrom,
                                   !.chTo = chFrom + readChannelBytes]
             /\ IF tail.thrown
                THEN /\ status' = "failed"
                     /\ UNCHANGED <<tracks, pc>>
                ELSE /\ status' = "running"
                     /\ tracks' = Append(tracks, track)
                     /\ pc' = AfterCounts(measures, trackCount, measures, number)
    /\ UNCHANGED <<fileBuffer, lastOp, zeroed, gateVars, metaVars, globalKeySignature,
                   measures, trackCount, measureHeaders, timeSignature>>

(***************************************************************************)
(* Times.  The code computes them as doubles; the model keeps the exact    *)
(* fraction [n, d], d > 0, in lowest terms.                                *)
(***************************************************************************)
RECURSIVE GCD(_, _)
GCD(a, b) == IF b = 0 THEN a ELSE GCD(b, a % b)

Abs(x) == IF x < 0 THEN -x ELSE x

Rat(n, d) ==
    LET g == GCD(Abs(n), Abs(d))
        sign == IF d < 0 THEN -1 ELSE 1
    IN  IF n = 0 THEN [n |-> 0, d |-> 1]
        ELSE [n |-> sign * (n \div g), d |-> sign * (d \div g)]

RECURSIVE Pow2(_)
Pow2(e) == IF e = 0 THEN 1 ELSE 2 * Pow2(e - 1)

\* static_cast<int32_t> of a double, or its implicit conversion: towards zero
Truncate(r) == TDiv(r.n, r.d)

\* std::round: to the nearest integer, halves away from zero
Round(r) ==
    IF r.n >= 0 THEN (2 * r.n + r.d) \div (2 * r.d)
    ELSE -((2 * (-r.n) + r.d) \div (2 * r.d))

\* auto duration = Duration(): every member zero
NewDuration ==
    [value |-> Rat(0, 1), dotted |-> FALSE, doubleDotted |-> FALSE,
     division |-> [enters |-> 0, times |-> 0]]

\* dots of which the second adds a quarter of the time
dottedTimeQuarter(time, duration) ==
    IF duration.dotted THEN Rat(time.n * 3, time.d * 2)
    ELSE IF duration.doubleDotted THEN Rat(time.n * 5, time.d * 4)
    ELSE time

\* the dots of getTime (596-599)
dottedTime(time, duration) ==
    IF duration.dotted THEN Rat(time.n * 3, time.d * 2)
    ELSE IF duration.doubleDotted THEN Rat(time.n * 7, time.d * 4)
    ELSE time

\* the return of getTime (601)
dividedTime(time, division) == Rat(time.n * division.times, time.d * division.enters)

\* getTime (593-602): value is not 0, enters is not 0
getTime(duration) ==
    dividedTime(dottedTime(Rat(QUARTER_TIME * 4 * duration.value.d, duration.value.n),
                           duration),
                duration.division)

\* denominatorToDuration (949-956)
denominatorToDuration(denominator) ==
    [NewDuration EXCEPT !.value = Rat(denominator.value, 1),
                        !.division = denominator.division]

\* a length that counts every measure in quarters
getLengthInQuarters(header) == header.timeSignature.numerator * QUARTER_TIME

\* getLength (449-453)
getLength(header) ==
    LET t == getTime(denominatorToDuration(header.timeSignature.denominator))
    IN  Round(Rat(header.timeSignature.numerator * t.n, t.d))

\* a table whose quintuplet is five in the time of four
tupletDivisionFiveInFour(divisionType, division) ==
    CASE divisionType = 3 -> [enters |-> 3, times |-> 2]
      [] divisionType = 5 -> [enters |-> 5, times |-> 4]
      [] divisionType = 6 -> [enters |-> 6, times |-> 4]
      [] divisionType = 7 -> [enters |-> 7, times |-> 4]
      [] divisionType = 9 -> [enters |-> 9, times |-> 8]
      [] divisionType = 10 -> [enters |-> 10, times |-> 8]
      [] divisionType = 11 -> [enters |-> 11, times |-> 8]
      [] divisionType = 12 -> [enters |-> 12, times |-> 8]
      [] divisionType = 13 -> [enters |-> 13, times |-> 8]
      [] OTHER -> division

\* the division a tuplet code selects (612-649); any other code leaves it as it is
tupletDivision(divisionType, division) ==
    CASE divisionType = 3 -> [enters |-> 3, times |-> 2]
      [] divisionType = 5 -> [enters |-> 5, times |-> 5]
      [] divisionType = 6 -> [enters |-> 6, times |-> 4]
      [] divisionType = 7 -> [enters |-> 7, times |-> 4]
      [] divisionType = 9 -> [enters |-> 9, times |-> 8]
      [] divisionType = 10 -> [enters |-> 10, times |-> 8]
      [] divisionType = 11 -> [enters |-> 11, times |-> 8]
      [] divisionType = 12 -> [enters |-> 12, times |-> 8]
      [] divisionType = 13 -> [enters |-> 13, times |-> 8]
      [] OTHER -> division

\* pow(2, b + 4) / 4 for a signed byte b
durationValue(b) == IF b + 4 >= 0 THEN Rat(Pow2(b + 4), 4) ELSE Rat(1, 4 * Pow2(-(b + 4)))

\* lines 651-654: a division that was not set is 1/1
defaultDivision(division) ==
    IF division.enters = 0 THEN [enters |-> 1, times |-> 1] ELSE division

\* the local duration of readDuration when it calls getTime (607-654)
durationRead(flags, byte, divisionType) ==
    [NewDuration EXCEPT
       !.value = durationValue(ToInt8(byte)),
       !.dotted = Bit(flags, 1),
       !.division = defaultDivision(IF Bit(flags, 32)
                                    THEN tupletDivision(divisionType, @)
                                    ELSE @)]

\* readDuration (605-657) on the beat's flags, the duration byte and the tuplet code
readDuration(flags, byte, divisionType) ==
    getTime(durationRead(flags, byte, divisionType))

\* the bytes readDuration consumes
durationBytes(flags) == 1 + (IF Bit(flags, 32) THEN 4 ELSE 0)

(***************************************************************************)
(* Measures, beats, notes (gp_parser.cpp 415-469, 659-763, 902-925).       *)
(* A Measure's header pointer is the 0-based index of the header.          *)
(***************************************************************************)
\* Voice(), Beat() with voices.resize(2), Note(), Measure(): members zero or empty
NewVoice == [empty |-> FALSE, duration |-> Rat(0, 1), notes |-> <<>>]

NewBeat == [start |-> 0, voices |-> <<NewVoice, NewVoice>>]

NewNote ==
    [string |-> 0, tiedNote |-> FALSE, value |-> 0, velocity |-> 0,
     effect |-> [deadNote |-> FALSE, accentuatedNote |-> FALSE,
                 heavyAccentuatedNote |-> FALSE, ghostNote |-> FALSE]]

NewMeasure == [header |-> 0, start |-> 0, keySignature |-> 0, clef |-> "", beats |-> <<>>]

MinOf(S) == CHOOSE x \in S : \A y \in S : x <= y

\* the loops over v and n of getTiedNoteValue (748-756) on one beat
tiedInBeat(beat, string) ==
    LET vs == {v \in 1..Len(beat.voices) :
                 /\ ~beat.voices[v].empty
                 /\ \E n \in 1..Len(beat.voices[v].notes) :
                      beat.voices[v].notes[n].string = string}
        v == MinOf(vs)
        n == MinOf({k \in 1..Len(beat.voices[v].notes) :
                      beat.voices[v].notes[k].string = string})
    IN  IF vs = {} THEN [found |-> FALSE, value |-> 0]
        ELSE [found |-> TRUE, value |-> beat.voices[v].notes[n].value]

RECURSIVE tiedInBeats(_, _, _)
\* the loop over b (746-758): beats b, b - 1, .. 1 of one measure
tiedInBeats(beats, b, string) ==
    IF b < 1 THEN [found |-> FALSE, value |-> 0]
    ELSE LET r == tiedInBeat(beats[b], string)
         IN  IF r.found THEN r ELSE tiedInBeats(beats, b - 1, string)

RECURSIVE tiedInMeasures(_, _, _)
\* the loop over m (744-759): m is a std::size_t, so m >= 0 always holds and --m
\* at 0 gives SIZE_MAX: the scan leaves the vector (outside) instead of ending
tiedInMeasures(ms, m, string) ==
    IF m < 1 THEN [found |-> FALSE, value |-> 0, outside |-> TRUE]
    ELSE LET r == tiedInBeats(ms[m].beats, Len(ms[m].beats), string)
         IN  IF r.found THEN [found |-> TRUE, value |-> r.value, outside |-> FALSE]
             ELSE tiedInMeasures(ms, m - 1, string)

\* getTiedNoteValue (740-763) on the measures of the track.  When the scan leaves
\* the vector the behaviour is undefined: what it returns, if it returns, is not
\* said here (value 0 stands for nothing)
getTiedNoteValue(string, ms) ==
    IF Len(ms) > 0 THEN tiedInMeasures(ms, Len(ms), string)
    ELSE [found |-> FALSE, value |-> 0, outside |-> FALSE]

\* a clamp that lets 100 through
fretValueUpTo100(value) == IF value >= 0 /\ value <= 100 THEN value ELSE 0

\* the clamp of readNote (724-726)
fretValue(value) == IF value >= 0 /\ value < 100 THEN value ELSE 0

TGVELOCITIES_MIN_VELOCITY == 15

TGVELOCITIES_VELOCITY_INCREMENT == 16

\* lines 709-713: whether the note is tied
tiedNote(in) == Bit(in.flags, 32) /\ in.noteType = 2

\* line 721-723: the value a tied note takes from the scan, ub when the scan left
\* the vector and returned, and the fret byte as an int8 otherwise
fretRead(string, in, scan, ub) ==
    IF tiedNote(in)
    THEN [string |-> string.number, tied |-> TRUE, found |-> scan.found,
          value |-> IF scan.outside THEN ub ELSE scan.value, outside |-> scan.outside]
    ELSE [string |-> string.number, tied |-> FALSE, found |-> FALSE,
          value |-> ToInt8(in.fret), outside |-> FALSE]

\* the note readNote returns, fret being what line 721 gave (700-737)
decodeNote(string, in, fret) ==
    [note |-> [NewNote EXCEPT
                 !.string = string.number,
                 !.effect.accentuatedNote = Bit(in.flags, 64),
                 !.effect.heavyAccentuatedNote = Bit(in.flags, 2),
                 !.effect.ghostNote = Bit(in.flags, 4),
                 !.tiedNote = tiedNote(in),
                 !.effect.deadNote = (Bit(in.flags, 32) /\ in.noteType = 3),
                 !.velocity = IF Bit(in.flags, 16)
                              THEN TGVELOCITIES_MIN_VELOCITY
                                   + TGVELOCITIES_VELOCITY_INCREMENT * ToInt8(in.velocity)
                                   - TGVELOCITIES_VELOCITY_INCREMENT
                              ELSE @,
                 !.value = IF Bit(in.flags, 32) THEN fretValue(fret.value) ELSE @],
     bytes |-> 1 + (IF Bit(in.flags, 32) THEN 2 ELSE 0)
                 + (IF Bit(in.flags, 16) THEN 1 ELSE 0)
                 + (IF Bit(in.flags, 128) THEN 2 ELSE 0)
                 + (IF Bit(in.flags, 1) THEN 8 ELSE 0)
                 + 1,
     fret |-> IF Bit(in.flags, 32) THEN fret ELSE NoFret]

\* readNote (700-737) on the bytes in, ms the measures of the track so far, ub
\* the int8 an out-of-vector tie scan returns when it returns: the note, the
\* bytes consumed, and the value at line 721 with how the tie scan ended.  The
\* note carries no effect bit (0x08).
readNote(string, ms, in, ub) ==
    decodeNote(string, in, fretRead(string, in, getTiedNoteValue(string.number, ms), ub))

\* getBeat (456-469): the index of the beat that starts at start, appended when
\* there is none
getBeat(measure, start) ==
    LET hits == {b \in 1..Len(measure.beats) : measure.beats[b].start = start}
    IN  IF hits # {} THEN [measure |-> measure, index |-> MinOf(hits)]
        ELSE [measure |-> [measure EXCEPT
                             !.beats = Append(@, [NewBeat EXCEPT !.start = start])],
              index |-> Len(measure.beats) + 1]

\* line 685: the note r is pushed on voice v of beat b of the last measure
pushNote(st, r, b, v) ==
    [ms |-> [st.ms EXCEPT ![Len(st.ms)].beats[b].voices[v].notes = Append(@, r.note)],
     bytes |-> st.bytes + r.bytes,
     count |-> st.count + 1,
     fret |-> IF r.fret.string # 0 THEN r.fret ELSE st.fret,
     outside |-> st.outside \/ r.fret.outside]

RECURSIVE readNotesFromBitZero(_, _, _, _, _, _, _)
\* a loop that takes bit i of the string flags for the string of index i
readNotesFromBitZero(st, i, b, v, in, strings, ub) ==
    IF i < 0 THEN st
    ELSE IF Bit(in.stringFlags, Pow2(i)) /\ i < Len(strings)
         THEN readNotesFromBitZero(pushNote(st,
                                            readNote(strings[i + 1], st.ms,
                                                     in.notes[(st.count % Len(in.notes)) + 1],
                                                     ub),
                                            b, v),
                                   i - 1, b, v, in, strings, ub)
         ELSE readNotesFromBitZero(st, i - 1, b, v, in, strings, ub)

RECURSIVE readNotes(_, _, _, _, _, _, _)
\* the loop of readBeat over i = 6 .. 0 (681-688).  st holds the track's measures
\* (the last one is being read), the bytes consumed, the notes decoded so far and
\* the last fret value read; the k-th note decoded takes its bytes from
\* notes[k] (cyclically)
readNotes(st, i, b, v, in, strings, ub) ==
    IF i < 0 THEN st
    ELSE IF Bit(in.stringFlags, Pow2(i)) /\ (6 - i) < Len(strings)
         THEN readNotes(pushNote(st,
                                 readNote(strings[(6 - i) + 1], st.ms,
                                          in.notes[(st.count % Len(in.notes)) + 1], ub),
                                 b, v),
                        i - 1, b, v, in, strings, ub)
         ELSE readNotes(st, i - 1, b, v, in, strings, ub)

\* readMixChange (472-509): the bytes consumed, the six levels being negative
\* bytes and the tempo name an empty field; the tempo after it
mixChangeBytes(vi, tempoIn) ==
    1 + 16 + 6 + 5 + 4 + (IF tempoIn >= 0 THEN 1 + (IF vi > 0 THEN 1 ELSE 0) ELSE 0)
    + 1 + 1 + (IF vi > 0 THEN 5 + 5 ELSE 0)

\* a mix change that takes only a positive tempo
readMixChangePositive(tempo, tempoIn) == IF tempoIn > 0 THEN [value |-> tempoIn] ELSE tempo

readMixChange(tempo, tempoIn) == IF tempoIn >= 0 THEN [value |-> tempoIn] ELSE tempo

\* lines 666-669: the beat type, read under flag 0x40, sets voice.empty
readBeatType(measure, b, v, in) ==
    IF Bit(in.flags, 64)
    THEN [measure EXCEPT !.beats[b].voices[v].empty = ~Bit(in.beatType, 2)]
    ELSE measure

\* lines 662-679: the beat found or made by getBeat (g), its type and the state
\* the loop over the strings starts from
beforeNotes(ms, g, v, in) ==
    [ms |-> [ms EXCEPT ![Len(ms)] = readBeatType(g.measure, g.index, v, in)],
     bytes |-> 0, count |-> 0, fret |-> NoFret, outside |-> FALSE]

\* lines 687-696: what readBeat leaves and returns, st being the state after the
\* loop over the strings, b the beat and duration the time readDuration gave
afterNotes(st, b, v, duration, tempo, in, vi) ==
    [ms |-> [st.ms EXCEPT ![Len(st.ms)].beats[b].voices[v].duration = duration],
     tempo |-> IF Bit(in.flags, 16) THEN readMixChange(tempo, in.tempo) ELSE tempo,
     fret |-> st.fret,
     outside |-> st.outside,
     notes |-> st.count,
     index |-> b,
     duration |-> duration,
     bytes |-> 1 + (IF Bit(in.flags, 64) THEN 1 ELSE 0) + durationBytes(in.flags)
                 + (IF Bit(in.flags, 16) THEN mixChangeBytes(vi, in.tempo) ELSE 0)
                 + 1 + st.bytes + 1 + 1 + (IF Bit(in.tail, 2) THEN 1 ELSE 0),
     result |-> IF Len(st.ms[Len(st.ms)].beats[b].voices[v].notes) # 0 THEN duration
                ELSE Rat(0, 1)]

\* readBeat from the beat g that getBeat gave (664-697)
readBeatAt(g, ms, strings, tempo, v, in, vi, ub) ==
    afterNotes(readNotes(beforeNotes(ms, g, v, in), 6, g.index, v, in, strings, ub),
               g.index, v, readDuration(in.flags, in.duration, in.tuplet), tempo, in, vi)

\* readBeat (660-697) for voice v (1 or 2) at start, on the bytes in; ms are the
\* track's measures, the last one being read.  The beat carries no chord, text or
\* beat-effect bit (0x02, 0x04, 0x08).
readBeat(start, ms, strings, tempo, v, in, vi, ub) ==
    readBeatAt(getBeat(ms[Len(ms)], start), ms, strings, tempo, v, in, vi, ub)

\* whether no voice of the beat holds a note (428-432)
emptyBeat(beat) == \A v \in 1..Len(beat.voices) : Len(beat.voices[v].notes) = 0

RemoveAt(q, i) == SubSeq(q, 1, i - 1) \o SubSeq(q, i + 1, Len(q))

RECURSIVE eraseEach(_, _)
\* the loop at 436-443: beatPtr is the address of a slot of the vector (a 1-based
\* index here); the first i with &measure.beats[i] == beatPtr is i = beatPtr, when
\* the vector still holds that many beats
eraseEach(beats, emptyBeats) ==
    IF emptyBeats = <<>> THEN beats
    ELSE LET beatPtr == Head(emptyBeats)
         IN  eraseEach(IF beatPtr <= Len(beats) THEN RemoveAt(beats, beatPtr) ELSE beats,
                       Tail(emptyBeats))

RECURSIVE indicesWhere(_, _)
\* the indices i, ascending, of the beats that are empty (425-435)
indicesWhere(beats, i) ==
    IF i > Len(beats) THEN <<>>
    ELSE (IF emptyBeat(beats[i]) THEN <<i>> ELSE <<>>) \o indicesWhere(beats, i + 1)

\* the pruning of readMeasure (425-443)
pruneBeats(beats) == eraseEach(beats, indicesWhere(beats, 1))

\* isPercussionChannel (904-912)
isPercussionChannel(chs, channelId) ==
    LET hits == {k \in 1..Len(chs) : chs[k].id = channelId}
    IN  IF hits = {} THEN FALSE ELSE chs[MinOf(hits)].isPercussionChannel

\* getClef (915-925)
getClef(chs, track) ==
    IF ~isPercussionChannel(chs, track.channelId)
       /\ \E k \in 1..Len(track.strings) : track.strings[k].value <= 34
    THEN "CLEF_BASS"
    ELSE "CLEF_TREBLE"

(***************************************************************************)
(* The body pass (175-195) and readMeasure (416-446), step by step: loc.at *)
(* is the place in the nested loops.                                        *)
(***************************************************************************)
bodyFixed == <<fileBuffer, lastOp, zeroed, gateVars, metaVars, globalKeySignature,
               tableVars, timeSignature>>

\* lines 175-181: the skip, tempo, start, and the loop condition for i = 0
BeginBody ==
    /\ pc = "body"
    /\ status = "running"
    /\ loc.at = "idle"
    /\ bufferPosition' = bufferPosition + (IF versionIndex = 0 THEN 2 ELSE 1)
    /\ loc' = [loc EXCEPT !.tempo = [value |-> tempoValue], !.start = 0, !.i = 0,
                          !.at = "measure"]
    /\ pc' = IF 0 < measures THEN "body" ELSE "done"
    /\ UNCHANGED <<status, measureHeaders, tracks>>
    /\ UNCHANGED bodyFixed

\* lines 182-184: header.start = start, and j = 0
BeginMeasure ==
    /\ pc = "body"
    /\ status = "running"
    /\ loc.at = "measure"
    /\ measureHeaders' = [measureHeaders EXCEPT ![loc.i + 1].start = loc.start]
    /\ loc' = [loc EXCEPT !.j = 0, !.at = "track"]
    /\ UNCHANGED <<status, pc, bufferPosition, tracks>>
    /\ UNCHANGED bodyFixed

\* a Measure that does not take the start it is given
pushMeasureAtZero(track, i, start) ==
    [track EXCEPT !.measures = Append(@, [NewMeasure EXCEPT !.header = i])]

\* lines 186-189: the new Measure of track, for the header at index i
pushMeasure(track, i, start) ==
    [track EXCEPT !.measures = Append(@, [NewMeasure EXCEPT !.header = i, !.start = start])]

\* lines 185-190 and 418: the measure is pushed and readMeasure entered
BeginTrackMeasure ==
    /\ pc = "body"
    /\ status = "running"
    /\ loc.at = "track"
    /\ loc.j < trackCount
    /\ tracks' = [tracks EXCEPT ![loc.j + 1] = pushMeasure(@, loc.i, loc.start)]
    /\ loc' = [loc EXCEPT !.voice = 0, !.at = "voice"]
    /\ UNCHANGED <<status, pc, bufferPosition, measureHeaders>>
    /\ UNCHANGED bodyFixed

\* where readMeasure goes on once k beats of the voice have been read (418-421)
afterBeat(voice, k, beats) ==
    IF k < beats THEN [voice |-> voice, at |-> "beat"]
    ELSE IF voice + 1 < 2 THEN [voice |-> voice + 1, at |-> "voice"]
    ELSE [voice |-> voice, at |-> "prune"]

\* the beat counts a profile gives the voice: beatCounts, or beatCounts2 for the
\* second voice when the profile has that field
beatCountsOf(P, voice) ==
    IF voice = 1 /\ "beatCounts2" \in DOMAIN P THEN P.beatCounts2 ELSE P.beatCounts

\* lines 419-420: start = measure.start and the beat count of the voice
BeginVoice(P) ==
    /\ pc = "body"
    /\ status = "running"
    /\ loc.at = "voice"
    /\ \E beats \in beatCountsOf(P, loc.voice) :
         LET measure == tracks[loc.j + 1].measures[Len(tracks[loc.j + 1].measures)]
             next == afterBeat(loc.voice, 0, beats)
         IN  loc' = [loc EXCEPT !.vstart = measure.start, !.beats = beats, !.k = 0,
                                !.voice = next.voice, !.at = next.at]
    /\ bufferPosition' = bufferPosition + 4
    /\ UNCHANGED <<status, pc, measureHeaders, tracks>>
    /\ UNCHANGED bodyFixed

\* line 422: start += readBeat(...), start an int32 and the sum a double that
\* int32 holds: the sum start + time, time >= 0, towards zero
addTime(start, time) ==
    LET whole == start + (time.n \div time.d)
    IN  IF whole < 0 /\ time.n % time.d # 0 THEN whole + 1 ELSE whole

INT32_MAX == 2147483646 + 1

INT32_MIN == -INT32_MAX - 1

\* line 422: the values start += readBeat(...) may leave in start.  The sum is a
\* double converted to int32; above INT32_MAX the conversion is undefined, and
\* gives INT32_MIN (cvttsd2si) or INT32_MAX (a saturating conversion).  The time
\* is never negative.
startAfter(start, time) ==
    IF start >= 0 /\ Truncate(time) > INT32_MAX - start THEN {INT32_MIN, INT32_MAX}
    ELSE {addTime(start, time)}

\* lines 421-422: one beat of the voice.  A tie scan that leaves the vector of
\* measures has undefined behaviour: the process dies in it, or it returns some
\* int8 ub and readNote goes on with it.
ReadBeat(P) ==
    /\ pc = "body"
    /\ status = "running"
    /\ loc.at = "beat"
    /\ \E in \in P.beats, ub \in P.ub, dies \in BOOLEAN :
         \E r \in {readBeat(loc.vstart, tracks[loc.j + 1].measures,
                            tracks[loc.j + 1].strings, loc.tempo, loc.voice + 1, in,
                            versionIndex, ub)} :
           /\ dies => r.outside
           /\ IF dies
              THEN /\ status' = "crashed"
                   /\ loc' = [loc EXCEPT !.fret = [r.fret EXCEPT !.value = 0]]
                   /\ UNCHANGED <<tracks, bufferPosition>>
              ELSE /\ status' = "running"
                   /\ tracks' = [tracks EXCEPT ![loc.j + 1].measures = r.ms]
                   /\ bufferPosition' = bufferPosition + r.bytes
                   /\ \E start \in startAfter(loc.vstart, r.result) :
                       loc' = [loc EXCEPT
                                !.tempo = r.tempo,
                                !.vstart = start,
                                !.k = @ + 1,
                                !.voice = afterBeat(loc.voice, loc.k + 1, loc.beats).voice,
                                !.at = afterBeat(loc.voice, loc.k + 1, loc.beats).at,
                                !.fret = r.fret,
                                !.beat = in,
                                !.mix = IF Bit(in.flags, 16)
                                        THEN Append(@, [i |-> loc.i, tempo |-> in.tempo])
                                        ELSE @]
    /\ UNCHANGED <<pc, measureHeaders>>
    /\ UNCHANGED bodyFixed

\* lines 425-446 and 191: the pruning, the clef, the key signature, skip(1), ++j
EndTrackMeasure ==
    /\ pc = "body"
    /\ status = "running"
    /\ loc.at = "prune"
    /\ LET j == loc.j + 1
           last == Len(tracks[j].measures)
       IN  tracks' = [tracks EXCEPT
                        ![j].measures[last] =
                           [@ EXCEPT !.beats = pruneBeats(@),
                                     !.clef = getClef(channels, tracks[j]),
                                     !.keySignature = globalKeySignature]]
    /\ bufferPosition' = bufferPosition + 1
    /\ loc' = [loc EXCEPT !.j = @ + 1, !.at = "track"]
    /\ UNCHANGED <<status, pc, measureHeaders>>
    /\ UNCHANGED bodyFixed

\* lines 193-194 and the loop condition at 181
EndMeasure ==
    /\ pc = "body"
    /\ status = "running"
    /\ loc.at = "track"
    /\ loc.j >= trackCount
    /\ LET header == [measureHeaders[loc.i + 1] EXCEPT !.tempo = loc.tempo]
       IN  /\ measureHeaders' = [measureHeaders EXCEPT ![loc.i + 1] = header]
           /\ loc' = [loc EXCEPT !.start = @ + getLength(header), !.i = @ + 1,
                                 !.at = "measure"]
    /\ pc' = IF loc.i + 1 < measures THEN "body" ELSE "done"
    /\ UNCHANGED <<status, bufferPosition, tracks>>
    /\ UNCHANGED bodyFixed

(***************************************************************************)
(* Inputs.  A profile is a record of sets: the files (their first 31       *)
(* bytes) and, for every pass, the values the pass may read.               *)
(***************************************************************************)
ZeroField == [n |-> 0, p |-> 0]

\* an empty string as Guitar Pro writes it: size 1, prefix 0
EmptyField == [n |-> 1, p |-> 0]

TextField == [n |-> 4, p |-> 3]

ZeroAttributes == [fields |-> [i \in 1..9 |-> ZeroField], commentLen |-> 0, comments |-> <<>>]

EmptyAttributes ==
    [fields |-> [i \in 1..9 |-> EmptyField], commentLen |-> 0, comments |-> <<>>]

TextAttributes ==
    [fields |-> [i \in 1..9 |-> IF i = 1 THEN TextField ELSE EmptyField],
     commentLen |-> 1, comments |-> <<TextField>>]

ZeroLyrics == [track |-> 0, from |-> 0, lens |-> <<0, 0, 0, 0, 0>>]

SomeLyrics == [track |-> 1, from |-> 1, lens |-> <<2, 0, 0, 0, 0>>]

ZeroPage == [names |-> Zeros(11), tempo |-> 0, key |-> 0]

SomePage == [names |-> [i \in 1..11 |-> IF i = 1 THEN 2 ELSE 0], tempo |-> 120, key |-> 255]

ZeroSlot == [program |-> 0, volume |-> 0, balance |-> 0, chorus |-> 0, reverb |-> 0,
             phaser |-> 0, tremolo |-> 0]

ZeroBank == [i \in 0..(ChannelSlots - 1) |-> ZeroSlot]

SomeBank ==
    [i \in 0..(ChannelSlots - 1) |->
       IF i = 0 THEN [ZeroSlot EXCEPT !.program = -1, !.volume = 200]
       ELSE IF i = 9 THEN [ZeroSlot EXCEPT !.program = 25, !.balance = 8]
       ELSE ZeroSlot]

PlainHeader ==
    [flags |-> 0, numerator |-> 0, denominator |-> 0, repeatClose |-> 0,
     marker |-> EmptyField, color |-> 0, alternative |-> 0, key |-> 0, tripletFeel |-> 0]

\* a header that sets the time signature to 3/8 and opens a repeat
WaltzHeader == [PlainHeader EXCEPT !.flags = 7, !.numerator = 3, !.denominator = 8]

\* a header with a key-signature change (flag 0x40) to two sharps
KeyHeader == [PlainHeader EXCEPT !.flags = 64, !.key = 2]

\* a header that closes a repeat (flag 0x08), v the byte of the count
RepeatHeader(v) == [PlainHeader EXCEPT !.flags = 8, !.repeatClose = v]

\* the tunings of a six-string guitar and of a four-string bass
GuitarTunings == <<64, 59, 55, 50, 45, 40, 0>>

BassTunings == <<43, 38, 33, 28, 0, 0, 0>>

GuitarTrack ==
    [name |-> 5, stringCount |-> 6, tunings |-> GuitarTunings, gm1 |-> 1, gm2 |-> 2,
     offset |-> 0, color |-> 0, tail |-> <<EmptyField, EmptyField>>]

BassTrack ==
    [name |-> 4, stringCount |-> 4, tunings |-> BassTunings, gm1 |-> 3, gm2 |-> 4,
     offset |-> 0, color |-> 0, tail |-> <<EmptyField, EmptyField>>]

\* a note: its flag byte, the type and fret bytes read under 0x20, the dynamic
\* byte read under 0x10
FretNote(fret) == [flags |-> 32, noteType |-> 1, fret |-> fret, velocity |-> 0]

TiedNote == [flags |-> 32, noteType |-> 2, fret |-> 0, velocity |-> 0]

\* a note without a fret field, with a dynamic
BareNote == [flags |-> 16, noteType |-> 0, fret |-> 0, velocity |-> 6]

\* a beat: the flag byte, the type byte read under 0x40, the duration byte, the
\* tuplet int32 read under 0x20, the tempo of the mix change read under 0x10, the
\* string flags, the notes, and the byte read at 692
NoteBeat(duration, stringFlags, notes) ==
    [flags |-> 0, beatType |-> 0, duration |-> duration, tuplet |-> 0, tempo |-> -1,
     stringFlags |-> stringFlags, notes |-> notes, tail |-> 0]

\* a beat that has no note: a rest
RestBeat(duration) == NoteBeat(duration, 0, <<FretNote(0)>>)

\* the duration bytes of a quarter (0) and of an eighth (1) (608)
Quarter == ToInt8(0)

Eighth == ToInt8(1)

\* string 1 is bit 6 of the string flags, string 2 bit 5 (682-683)
String1 == Pow2(6)

String2 == Pow2(5)

\* the first 31 bytes of a file: the prefix byte p, then 30 bytes
VersionField(p, str) == <<p>> \o str \o Zeros(30 - Len(str))

\* "FICHIER GUITAR PRO v5.01" and "FICHIER GUITAR PRO v4.06", and v5.00 followed
\* by an "A"
V501 == [V500 EXCEPT ![24] = 49]

V406 == [V500 EXCEPT ![21] = 52, ![24] = 54]

V500A == V500 \o <<65>>

AllFiles ==
    {VersionField(p, str) : p \in {0, 23, 24, 25, 30, 255},
                            str \in {V500, V510, V501, V406, V500A}}

GoodFiles == {VersionField(24, V500), VersionField(24, V510)}

FileProfile ==
    [files |-> AllFiles,
     attributes |-> {ZeroAttributes, EmptyAttributes, TextAttributes},
     lyrics |-> {ZeroLyrics, SomeLyrics, [SomeLyrics EXCEPT !.lens[2] = -1]},
     pages |-> {ZeroPage, SomePage},
     banks |-> {ZeroBank, SomeBank},
     counts |-> {[measures |-> 0, trackCount |-> 0], [measures |-> 1, trackCount |-> 1]},
     headers |-> {PlainHeader, WaltzHeader, KeyHeader, RepeatHeader(2), RepeatHeader(200)},
     tracks |-> {GuitarTrack, BassTrack},
     beatCounts |-> {0, 1},
     beats |-> {NoteBeat(Quarter, String1, <<FretNote(7)>>), RestBeat(Eighth),
                [RestBeat(Quarter) EXCEPT !.flags = 16, !.tempo = 90]},
     ub |-> {0}]

(***************************************************************************)
(* The constructor on the files of a profile.                              *)
(***************************************************************************)
InitDoc(P) ==
    /\ fileBuffer \in P.files
    /\ bufferPosition = 0
    /\ status = "running"
    /\ lastOp = NoOp
    /\ DocUnset

NextDoc(P) ==
    \/ ReadVersion
    \/ ReadAttributes(P)
    \/ ReadLyrics(P)
    \/ ReadPageSetup(P)
    \/ ReadChannels(P)
    \/ ReadMeasureHeader(P)
    \/ ReadTrack(P)
    \/ BeginBody
    \/ BeginMeasure
    \/ BeginTrackMeasure
    \/ BeginVoice(P)
    \/ ReadBeat(P)
    \/ EndTrackMeasure
    \/ EndMeasure

\* the whole constructor, few values for every field
Spec == InitDoc(FileProfile) /\ [][NextDoc(FileProfile)]_vars

(***************************************************************************)
(* The version gate and the minimal file, under Spec.                      *)
(***************************************************************************)
\* the string the version field of the file holds: the bytes after the prefix
\* byte, as many as the prefix byte says and 30 at most
FieldString == SubSeq(fileBuffer, 2, 1 + Min(fileBuffer[1], 30))

\* no field of the document has been given a value
DocumentUnpopulated ==
    /\ major = 0 /\ minor = 0
    /\ attributes = <<>> /\ comments = <<>>
    /\ lyricTrack = 0 /\ lyric = [from |-> 0, lyric |-> 0]
    /\ tempoValue = 0 /\ globalKeySignature = 0
    /\ channels = <<>> /\ measures = 0 /\ trackCount = 0
    /\ measureHeaders = <<>> /\ tracks = <<>>

\* C2: the constructor goes past the version gate if and only if the string of
\* the version field is "FICHIER GUITAR PRO v5.00" (versionIndex 0) or
\* "FICHIER GUITAR PRO v5.10" (versionIndex 1); for any other string it fails
\* with the position at 31 and no field of the document populated.
C2_VersionGate ==
    /\ pc # "version" => \/ FieldString = V500 /\ versionIndex = 0
                         \/ FieldString = V510 /\ versionIndex = 1
    /\ (pc = "version" /\ status = "failed") =>
          /\ FieldString \notin {V500, V510}
          /\ bufferPosition = 31
          /\ DocumentUnpopulated
    /\ (pc = "version" /\ status # "failed") => bufferPosition = 0

\* a file whose field starts with the 24 characters of v5.00 but holds a longer
\* string has been rejected
C2_NearMissRejected ==
    /\ pc = "version"
    /\ status = "failed"
    /\ Len(FieldString) > 24
    /\ SubSeq(FieldString, 1, 24) = V500

\* C3: the file that holds "FICHIER GUITAR PRO v5.00" and then only zeros (every
\* length field and byte 0, no comments, no measures, no tracks) decodes
\* successfully, to measures = 0, trackCount = 0, no header, no track and a
\* channel table of 64 entries without parameters.
C3_MinimalFileDecodes ==
    (/\ FieldString = V500
     /\ zeroed
     /\ pc # "version"
     /\ status # "running" \/ pc = "done")
    => /\ status = "running"
       /\ pc = "done"
       /\ measures = 0
       /\ trackCount = 0
       /\ measureHeaders = <<>>
       /\ tracks = <<>>
       /\ Len(channels) = ChannelSlots
       /\ \A k \in 1..Len(channels) : channels[k].parameters = <<>>

(***************************************************************************)
(* SpecTracks: the track loop and the channel table.  The fields before    *)
(* the counts are fixed; the counts and the channel numbers of the tracks  *)
(* vary; every measure is in 3/8 and every voice holds one beat.           *)
(***************************************************************************)
MaxMeasures == 2

MaxTracks == 2

\* the values readChannel reads for gmChannel1 + 1: below the table, slots 0 and
\* 9, the first appended index, beyond the table
ChannelInputs == {0, 1, 10, 65, 200}

GmTrack(r1) == [GuitarTrack EXCEPT !.gm1 = r1, !.gm2 = r1 + 1]

TracksProfile ==
    [files |-> GoodFiles,
     attributes |-> {EmptyAttributes},
     lyrics |-> {SomeLyrics},
     pages |-> {SomePage},
     banks |-> {SomeBank},
     counts |-> {[measures |-> m, trackCount |-> t] : m \in 0..MaxMeasures,
                                                     t \in 0..MaxTracks},
     headers |-> {WaltzHeader},
     tracks |-> {GmTrack(r1) : r1 \in ChannelInputs},
     beatCounts |-> {1},
     beats |-> {NoteBeat(Quarter, String1, <<FretNote(7)>>)},
     ub |-> {0}]

SpecTracks == InitDoc(TracksProfile) /\ [][NextDoc(TracksProfile)]_vars

\* the measures of every track when n passes of the outer loop have ended
AlignedUpTo(n) ==
    \A t \in 1..Len(tracks) :
       /\ Len(tracks[t].measures) = n
       /\ \A i \in 1..n :
            /\ tracks[t].measures[i].header = i - 1
            /\ tracks[t].measures[i].start = measureHeaders[i].start

\* C6: after a successful decode every track holds one Measure per MeasureHeader
\* (as many as the measure count), the measure at index i refers to header i and
\* starts where header i starts; and once the pass of the outer loop for measure
\* index i has ended, every track holds i + 1 measures.
C6_TrackMeasureAlignment ==
    /\ (pc = "done" /\ status = "running") =>
          /\ Len(measureHeaders) = measures
          /\ Len(tracks) = trackCount
          /\ AlignedUpTo(measures)
    /\ (pc = "body" /\ loc.at = "measure") => AlignedUpTo(loc.i)

\* two tracks of two measures have been decoded, the second measure later
\* than the first
C6_TwoByTwoDecoded ==
    /\ pc = "done"
    /\ status = "running"
    /\ Len(tracks) = 2
    /\ Len(tracks[2].measures) = 2
    /\ tracks[2].measures[2].start > tracks[2].measures[1].start

\* C8: a track whose gmChannel1 names a slot that an earlier track has exposed
\* takes the id given then and the table does not grow: two tracks that name
\* the same gmChannel1 have the same channel id, and one appended channel
\* exists for the slot.
C8_ExposedChannelReused ==
    /\ \A a \in 1..Len(tracks), b \in 1..Len(tracks) :
          (/\ a < b
           /\ loc.gm[a] = loc.gm[b]
           /\ loc.gm[a] >= 0
           /\ loc.gm[a] < ChannelSlots)
          => tracks[a].channelId = tracks[b].channelId
    /\ \A k \in 1..Len(channels), l \in 1..Len(channels) :
          (/\ ChannelSlots < k
           /\ k < l)
          => channels[k].parameters[1] # channels[l].parameters[1]

C9_State ==
    /\ \A k \in 1..Len(channels), l \in 1..Len(channels) :
          (k # l /\ channels[k].id # 0) => channels[k].id # channels[l].id
    /\ \A k \in 1..Len(channels) : k > ChannelSlots => channels[k].id = k

C9_Step ==
    \A k \in 1..Len(channels) :
       channels[k].id # 0 => /\ k <= Len(channels')
                             /\ channels'[k].id = channels[k].id

\* C9: in every state no two channels with a non-zero id share it, and every
\* appended channel, at 0-based index k >= 64, has id k + 1; in every step a
\* non-zero id stays what it is.
C9_ChannelIdsUniqueStable == []C9_State /\ [][C9_Step]_vars

\* two tracks have each had a channel appended
C9_TwoAppended ==
    /\ Len(tracks) = 2
    /\ Len(channels) = ChannelSlots + 2
    /\ tracks[1].channelId # tracks[2].channelId

\* C10: when the gmChannel1 of a track is negative or not below the length of
\* the table, readChannel leaves the channel id of the track 0 and the table as
\* it is, consumes the two int32 and nothing else, and the decode goes on.
C10_UnassignedChannel ==
    [][(/\ pc = "tracks"
        /\ Len(loc'.gm) = Len(loc.gm) + 1
        /\ \/ loc'.gm[Len(loc'.gm)] < 0
           \/ loc'.gm[Len(loc'.gm)] >= Len(channels))
       => /\ channels' = channels
          /\ loc'.chTo = loc'.chFrom + 8
          /\ status' = "running"
          /\ Len(tracks') = Len(tracks) + 1
          /\ tracks'[Len(tracks')].channelId = 0]_vars

\* a decode has ended with two tracks, one whose gmChannel1 was negative and
\* one whose gmChannel1 was beyond the table
C10_BothSidesUnassigned ==
    /\ pc = "done"
    /\ status = "running"
    /\ Len(tracks) = 2
    /\ loc.gm[1] < 0
    /\ loc.gm[2] >= Len(channels)
    /\ tracks[1].channelId = 0
    /\ tracks[2].channelId = 0

(***************************************************************************)
(* SpecMeasure: one measure of one six-string track, up to MaxBeats beats  *)
(* in each voice, taken from MeasureBeats.                                 *)
(***************************************************************************)
MaxBeats == 2

\* what a tie scan that left the vector may return
GarbageFrets == {-1, 7, 127}

String3 == Pow2(4)

MeasureBeats ==
    {NoteBeat(Quarter, String1, <<FretNote(7)>>),
     NoteBeat(Eighth, String1 + String2, <<FretNote(100), BareNote>>),
     NoteBeat(Quarter, String2 + String3, <<FretNote(200), FretNote(99)>>),
     NoteBeat(Quarter, String1, <<TiedNote>>),
     RestBeat(Eighth)}

MeasureProfile ==
    [files |-> {VersionField(24, V500)},
     attributes |-> {EmptyAttributes},
     lyrics |-> {SomeLyrics},
     pages |-> {SomePage},
     banks |-> {SomeBank},
     counts |-> {[measures |-> 1, trackCount |-> 1]},
     headers |-> {PlainHeader},
     tracks |-> {GuitarTrack},
     beatCounts |-> 0..MaxBeats,
     beats |-> MeasureBeats,
     ub |-> GarbageFrets]

SpecMeasure == InitDoc(MeasureProfile) /\ [][NextDoc(MeasureProfile)]_vars

\* whether readMeasure has not yet returned for measure m of track t
InReadMeasure(t, m) ==
    /\ pc = "body"
    /\ loc.at \in {"voice", "beat", "prune"}
    /\ t = loc.j + 1
    /\ m = Len(tracks[t].measures)

\* C4: after readMeasure has returned, the beat list of the measure holds no
\* beat whose two voices both have no note.
C4_NoEmptyBeatRemains ==
    \A t \in 1..Len(tracks) :
       \A m \in 1..Len(tracks[t].measures) :
          ~InReadMeasure(t, m) =>
             \A b \in 1..Len(tracks[t].measures[m].beats) :
                ~emptyBeat(tracks[t].measures[m].beats[b])

\* C5: a tie scan never indexes a measure outside the vector, and gives the
\* value of the first note it meets on the string, 0 when it meets none.
C5_TieScanStaysInside ==
    loc.fret.tied => /\ ~loc.fret.outside
                     /\ ~loc.fret.found => loc.fret.value = 0

AllNotes ==
    {tracks[t].measures[m].beats[b].voices[v].notes[n] :
       <<t, m, b, v, n>> \in
          {q \in (1..Len(tracks)) \X (1..MaxMeasures + 1) \X (1..2 * MaxBeats + 2)
                 \X (1..2) \X (1..7) :
             /\ q[2] <= Len(tracks[q[1]].measures)
             /\ q[3] <= Len(tracks[q[1]].measures[q[2]].beats)
             /\ q[5] <= Len(tracks[q[1]].measures[q[2]].beats[q[3]].voices[q[4]].notes)}}

\* C7: every note of the document has a fret value v with 0 <= v < 100: tied,
\* not tied or without a fret field; a value outside [0,100) is stored as 0.
C7_FretInRange ==
    /\ \A note \in AllNotes : note.value >= 0 /\ note.value < 100
    /\ (/\ status = "running"
        /\ loc.fret.string # 0
        /\ loc.fret.value < 0 \/ loc.fret.value >= 100)
       => \E note \in AllNotes : note.string = loc.fret.string /\ note.value = 0

\* a measure has been decoded that holds a tied note with the fret of the note
\* before it, a note without a fret field, and a note whose fret byte was 100
C7_ThreeKindsDecoded ==
    /\ pc = "done"
    /\ status = "running"
    /\ \E note \in AllNotes : note.tiedNote /\ note.value = 7
    /\ \E note \in AllNotes : note.velocity # 0 /\ note.value = 0
    /\ loc.fret.value = 100
    /\ \E note \in AllNotes : note.string = loc.fret.string /\ note.value = 0


(***************************************************************************)
(* The channel bank (Spec)                                                 *)
(***************************************************************************)
\* C11: the step that runs readChannels leaves exactly 64 channels and moves
\* the cursor by 12 bytes for each of them (and by the 42 + 4 + 4 bytes of
\* lines 89-93 the same step reads); the channel of index 9, and no other,
\* has the percussion flag and the percussion bank name; every channel has
\* id 0 and no parameters; every program is >= 0: the int32 read when that
\* is not negative, 0 when it is.
C11_ChannelBank ==
    [][pc = "channels" /\ pc' # "channels" =>
         /\ Len(channels') = 64
         /\ bufferPosition' - bufferPosition = 64 * 12 + 42 + 4 + 4
         /\ \A i \in 0..63 :
              /\ channels'[i + 1].isPercussionChannel = (i = 9)
              /\ channels'[i + 1].bank = IF i = 9 THEN "default percussion bank"
                                         ELSE "default bank"
              /\ channels'[i + 1].id = 0
              /\ channels'[i + 1].parameters = <<>>
              /\ channels'[i + 1].program >= 0
              /\ channels'[i + 1].program =
                    IF loc'.bank[i].program < 0 THEN 0 ELSE loc'.bank[i].program]_vars

\* a bank with a negative program in slot 0 and a program in slot 9 was decoded
C11_NegativeProgramDecoded ==
    /\ pc \in {"headers", "tracks", "body"}
    /\ Len(channels) >= 64
    /\ loc.bank[0].program < 0
    /\ channels[1].program = 0
    /\ loc.bank[9].program > 0
    /\ channels[10].program = loc.bank[9].program
    /\ channels[10].isPercussionChannel

(***************************************************************************)
(* SpecHeaders: the header loop and the starts the body loop gives the     *)
(* headers.  Up to MaxHeaders headers, each taken from TimeHeaders; the    *)
(* files without tracks have any number of measures, the file with a track *)
(* has one.                                                                *)
(***************************************************************************)
MaxHeaders == 3

\* headers that set the numerator (3, and the byte 250: -6), the denominator
\* (8), both (5/7, a length that is not a whole number of ticks), or neither
TimeHeaders ==
    {PlainHeader,
     [PlainHeader EXCEPT !.flags = 1, !.numerator = 3, !.denominator = 9],
     [PlainHeader EXCEPT !.flags = 1, !.numerator = 250],
     [PlainHeader EXCEPT !.flags = 2, !.numerator = 9, !.denominator = 8],
     [PlainHeader EXCEPT !.flags = 3, !.numerator = 5, !.denominator = 7]}

HeadersProfile ==
    [files |-> {VersionField(24, V500)},
     attributes |-> {EmptyAttributes},
     lyrics |-> {SomeLyrics},
     pages |-> {SomePage},
     banks |-> {SomeBank},
     counts |-> {[measures |-> m, trackCount |-> 0] : m \in 0..MaxHeaders}
                  \cup {[measures |-> 1, trackCount |-> 1]},
     headers |-> TimeHeaders,
     tracks |-> {GuitarTrack},
     beatCounts |-> {1},
     beats |-> {NoteBeat(Quarter, String1, <<FretNote(7)>>)},
     ub |-> {0}]

SpecHeaders == InitDoc(HeadersProfile) /\ [][NextDoc(HeadersProfile)]_vars

\* round(numerator * 960 * 4 / denominator value * times / enters) for the time
\* signature of a header: the nearest integer to the quotient a / b
measureLengthFor(h) ==
    LET a == h.timeSignature.numerator * 960 * 4 * h.timeSignature.denominator.division.times
        b == h.timeSignature.denominator.value * h.timeSignature.denominator.division.enters
    IN  IF b > 0 THEN (2 * a + b) \div (2 * b) ELSE (2 * (-a) - b) \div (2 * (-b))

RECURSIVE lengthsBefore(_)
\* the sum of measureLengthFor over the first n headers
lengthsBefore(n) ==
    IF n = 0 THEN 0 ELSE lengthsBefore(n - 1) + measureLengthFor(measureHeaders[n])

\* C12: after the body pass header 0 starts at 0 and every later header starts
\* at the sum of measureLengthFor over the headers before it; a header in 4/4
\* contributes 3840 ticks.
C12_StartsCumulative ==
    (pc = "done" /\ status = "running") =>
       \A i \in 1..Len(measureHeaders) :
          /\ measureHeaders[i].start = lengthsBefore(i - 1)
          /\ (/\ i > 1
              /\ measureHeaders[i - 1].timeSignature.numerator = 4
              /\ measureHeaders[i - 1].timeSignature.denominator.value = 4)
                => measureHeaders[i].start = measureHeaders[i - 1].start + 3840

\* a decode has ended with three headers in 4/4, 3/4 and 3/8
C12_ThreeStartsDecoded ==
    /\ pc = "done"
    /\ status = "running"
    /\ Len(measureHeaders) = 3
    /\ measureHeaders[1].timeSignature.numerator = 4
    /\ measureHeaders[2].timeSignature.numerator = 3
    /\ measureHeaders[3].timeSignature.denominator.value = 8
    /\ measureHeaders[2].start = 3840
    /\ measureHeaders[3].start = 3840 + 2880

\* a decode has ended with a header in 5/7, whose 2742.857... ticks were rounded
C12_RoundedLength ==
    /\ pc = "done"
    /\ status = "running"
    /\ Len(measureHeaders) = 2
    /\ measureHeaders[1].timeSignature.numerator = 5
    /\ measureHeaders[1].timeSignature.denominator.value = 7
    /\ measureHeaders[2].start = 2743

RECURSIVE latestWith(_, _)
\* the latest header j <= i whose flag byte has the bit set (0: there is none);
\* headers are counted from 1
latestWith(i, bit) ==
    IF i = 0 THEN 0
    ELSE IF Bit(loc.headers[i].flags, bit) THEN i
    ELSE latestWith(i - 1, bit)

\* C13: the numerator of every header is the signed byte read at the latest
\* header up to it with flag 0x01, or 4 if there is none; its denominator value
\* is the signed byte read at the latest header up to it with flag 0x02, or 4 if
\* there is none; a header with neither flag has the time signature of the
\* header before it.
C13_RunningTimeSignature ==
    /\ Len(loc.headers) = Len(measureHeaders)
    /\ \A i \in 1..Len(measureHeaders) :
         /\ measureHeaders[i].timeSignature.numerator =
               IF latestWith(i, 1) = 0 THEN 4
               ELSE ToInt8(loc.headers[latestWith(i, 1)].numerator)
         /\ measureHeaders[i].timeSignature.denominator.value =
               IF latestWith(i, 2) = 0 THEN 4
               ELSE ToInt8(loc.headers[latestWith(i, 2)].denominator)
         /\ (i > 1 /\ ~Bit(loc.headers[i].flags, 1) /\ ~Bit(loc.headers[i].flags, 2))
               => measureHeaders[i].timeSignature = measureHeaders[i - 1].timeSignature

\* three headers were read: the first sets 5/7, the second only the numerator 3,
\* the third neither and is in 3/7
C13_ThirdHeaderInherits ==
    /\ Len(measureHeaders) = 3
    /\ Bit(loc.headers[1].flags, 1) /\ Bit(loc.headers[1].flags, 2)
    /\ Bit(loc.headers[2].flags, 1) /\ ~Bit(loc.headers[2].flags, 2)
    /\ ~Bit(loc.headers[3].flags, 1) /\ ~Bit(loc.headers[3].flags, 2)
    /\ measureHeaders[3].timeSignature.numerator = 3
    /\ measureHeaders[3].timeSignature.denominator.value = 7

(***************************************************************************)
(* SpecDuration: readDuration on a buffer that holds a duration byte and   *)
(* the int32 of a tuplet code, under each combination of the flags 0x01    *)
(* and 0x20; and getTime on a Duration.                                    *)
(***************************************************************************)
MaxTuplet == 14

\* the tuplet codes: every code of the table, the codes between them, 99
TupletCodes == ((-1)..MaxTuplet) \cup {99}

\* the duration bytes: whole note (-2) to sixty-fourth (4)
DurationBytes == (-2)..4

DurationBuffers == {<<(b + 256) % 256>> \o IntLE(code) : b \in DurationBytes, code \in TupletCodes}

\* the beat flags readDuration looks at: dotted (0x01), tuplet (0x20)
DurationFlags == {0, 1, 32, 33}

\* the Durations given to getTime
Durations ==
    {[value |-> durationValue(b), dotted |-> dot, doubleDotted |-> ddot, division |-> dv] :
       b \in DurationBytes, dot \in BOOLEAN, ddot \in BOOLEAN,
       dv \in {[enters |-> 1, times |-> 1], [enters |-> 3, times |-> 2]}}

InitDuration ==
    /\ fileBuffer \in DurationBuffers
    /\ bufferPosition = 0
    /\ status = "running"
    /\ lastOp = NoOp
    /\ DocUnset

\* readDuration(flags) at the start of the buffer
OpReadDuration ==
    /\ status = "running"
    /\ lastOp.op = "none"
    /\ \E flags \in DurationFlags :
         \E code \in {IF Bit(flags, 32) THEN readInt(fileBuffer, bufferPosition + 1, 0).val
                       ELSE 0} :
           /\ lastOp' = [op |-> "readDuration", flags |-> flags,
                         byte |-> readByte(fileBuffer, bufferPosition, 0).val,
                         code |-> code,
                         duration |-> durationRead(flags, fileBuffer[bufferPosition + 1],
                                                   code),
                         time |-> readDuration(flags, fileBuffer[bufferPosition + 1],
                                               code)]
           /\ bufferPosition' = bufferPosition + durationBytes(flags)
    /\ UNCHANGED <<fileBuffer, status>>
    /\ UNCHANGED docVars

\* getTime(duration)
OpGetTime ==
    /\ status = "running"
    /\ lastOp.op = "none"
    /\ \E d \in Durations :
         lastOp' = [op |-> "getTime", duration |-> d, time |-> getTime(d)]
    /\ UNCHANGED <<fileBuffer, bufferPosition, status>>
    /\ UNCHANGED docVars

NextDuration ==
    \/ OpReadDuration
    \/ OpGetTime

SpecDuration == InitDuration /\ [][NextDuration]_vars

\* the table of C14: tuplet code -> (enters, times)
TupletTable ==
    (3 :> [enters |-> 3, times |-> 2]) @@ (5 :> [enters |-> 5, times |-> 5])
    @@ (6 :> [enters |-> 6, times |-> 4]) @@ (7 :> [enters |-> 7, times |-> 4])
    @@ (9 :> [enters |-> 9, times |-> 8]) @@ (10 :> [enters |-> 10, times |-> 8])
    @@ (11 :> [enters |-> 11, times |-> 8]) @@ (12 :> [enters |-> 12, times |-> 8])
    @@ (13 :> [enters |-> 13, times |-> 8])

\* the time of the duration byte b before the division is applied, as the
\* fraction [n, d]: 960 * 4 / 2^(b + 2), and 3/2 of it when dotted
undividedTime(b, dotted) ==
    [n |-> 960 * 4 * (IF dotted THEN 3 ELSE 1), d |-> Pow2(b + 2) * (IF dotted THEN 2 ELSE 1)]

\* C14: with the tuplet flag 0x20, readDuration gives the division TupletTable
\* has for the int32 code; every other code, and the absence of the flag, gives
\* (1, 1) and no failure; the time returned is the undivided time multiplied by
\* times and divided by enters.
C14_TupletTable ==
    lastOp.op = "readDuration" =>
       /\ status = "running"
       /\ lastOp.duration.division =
             IF Bit(lastOp.flags, 32) /\ lastOp.code \in DOMAIN TupletTable
             THEN TupletTable[lastOp.code]
             ELSE [enters |-> 1, times |-> 1]
       /\ lastOp.time.n * undividedTime(lastOp.byte, Bit(lastOp.flags, 1)).d
             * lastOp.duration.division.enters
           = lastOp.time.d * undividedTime(lastOp.byte, Bit(lastOp.flags, 1)).n
               * lastOp.duration.division.times

\* readDuration has returned 640 ticks for a quarter under the tuplet code 3
C14_TripletQuarterRead ==
    /\ lastOp.op = "readDuration"
    /\ lastOp.flags = 32
    /\ lastOp.code = 3
    /\ lastOp.byte = 0
    /\ lastOp.duration.division = [enters |-> 3, times |-> 2]
    /\ lastOp.time = [n |-> 640, d |-> 1]
    /\ bufferPosition = 5

\* readDuration has returned 960 ticks for a quarter under the unknown code 99
C14_UnknownCodeRead ==
    /\ lastOp.op = "readDuration"
    /\ lastOp.flags = 32
    /\ lastOp.code = 99
    /\ lastOp.byte = 0
    /\ lastOp.time = [n |-> 960, d |-> 1]

\* C15: for a duration byte b in -2..4 without the tuplet flag, readDuration
\* returns 960 * 4 / (2^(b + 4) / 4) ticks when the dotted flag is clear (3840 for
\* b = -2, 960 for b = 0, 60 for b = 4) and exactly 1.5 times that when it is
\* set; getTime of a double-dotted Duration is exactly 1.75 times the time of
\* the same Duration without dots.
C15_DurationArithmetic ==
    /\ (lastOp.op = "readDuration" /\ ~Bit(lastOp.flags, 32) /\ lastOp.byte \in (-2)..4) =>
          /\ lastOp.time.n * 2 =
                lastOp.time.d * ((960 * 4 * 4) \div Pow2(lastOp.byte + 4))
                  * (IF Bit(lastOp.flags, 1) THEN 3 ELSE 2)
          /\ (lastOp.flags = 0 /\ lastOp.byte = -2) => lastOp.time = [n |-> 3840, d |-> 1]
          /\ (lastOp.flags = 0 /\ lastOp.byte = 0) => lastOp.time = [n |-> 960, d |-> 1]
          /\ (lastOp.flags = 0 /\ lastOp.byte = 4) => lastOp.time = [n |-> 60, d |-> 1]
    /\ (lastOp.op = "getTime" /\ lastOp.duration.doubleDotted /\ ~lastOp.duration.dotted) =>
          lastOp.time.n * 4 * lastOp.duration.value.n * lastOp.duration.division.enters
            = lastOp.time.d * 7 * 960 * 4 * lastOp.duration.value.d
                * lastOp.duration.division.times

\* getTime has returned 1680 ticks for a double-dotted quarter
C15_DoubleDottedQuarter ==
    /\ lastOp.op = "getTime"
    /\ lastOp.duration.doubleDotted
    /\ ~lastOp.duration.dotted
    /\ lastOp.duration.value = [n |-> QUARTER, d |-> 1]
    /\ lastOp.duration.division = [enters |-> 1, times |-> 1]
    /\ lastOp.time = [n |-> 1680, d |-> 1]

\* readDuration has returned 90 ticks for a dotted sixty-fourth
C15_DottedSixtyFourthRead ==
    /\ lastOp.op = "readDuration"
    /\ lastOp.flags = 1
    /\ lastOp.byte = 4
    /\ lastOp.time = [n |-> 90, d |-> 1]

(***************************************************************************)
(* The string fields (SpecCursor)                                          *)
(***************************************************************************)
\* the N of the field at the position the last operation started from: the
\* int32 there is N + 1
FieldN == readInt(fileBuffer, lastOp.from, 0).val - 1

\* the last operation was readStringByteSizeOfInteger, it returned, and the
\* field it started at (an int32 N + 1 with N >= 0, a prefix byte, N bytes)
\* lies inside the buffer
FieldWasRead ==
    /\ lastOp.op = "readStringByteSizeOfInteger"
    /\ status = "running"
    /\ lastOp.from + 4 <= Len(fileBuffer)
    /\ FieldN >= 0
    /\ lastOp.from + 4 + 1 + FieldN <= Len(fileBuffer)

\* C16 as stated: readStringByteSizeOfInteger on a field made of a 4-byte length
\* encoding N + 1, a 1-byte inner length and the string bytes advances the
\* cursor by exactly N + 4 bytes.
C16_AdvanceNPlus4 ==
    FieldWasRead => lastOp.to - lastOp.from = FieldN + 4

\* C16, amended: on such a field readStringByteSizeOfInteger advances the cursor
\* by exactly N + 5 bytes for every N >= 1, whatever the inner length and the
\* string bytes are; for N = 0 it advances by 5 + p bytes, p the inner length.
C16_AdvanceNPlus5 ==
    FieldWasRead =>
       lastOp.to - lastOp.from =
         IF FieldN >= 1 THEN FieldN + 5 ELSE 5 + fileBuffer[lastOp.from + 5]

\* a field with N = 2 was read whose inner length (255) is above N
C16_FieldOfTwoRead ==
    /\ FieldWasRead
    /\ FieldN = 2
    /\ fileBuffer[lastOp.from + 5] = 255
    /\ lastOp.to = lastOp.from + 7
    /\ lastOp.strLen = 2

(***************************************************************************)
(* The position (SpecCursor)                                               *)
(***************************************************************************)
\* what a step of a cursor operation that returned did to the position: it did
\* not decrease, and it grew by 1 for a byte read, by 4 for readInt, by n for
\* skip(n), by size for readString(size)
AdvancedAsConsumed ==
    /\ bufferPosition' >= bufferPosition
    /\ lastOp'.from = bufferPosition
    /\ lastOp'.to = bufferPosition'
    /\ lastOp'.op \in {"readUnsignedByte", "readByte"} => bufferPosition' = bufferPosition + 1
    /\ lastOp'.op = "readInt" => bufferPosition' = bufferPosition + 4
    /\ lastOp'.op \in {"skip", "readString"} => bufferPosition' = bufferPosition + lastOp'.arg

\* C17 as stated: the position never decreases, every operation advances it by
\* the number of bytes it consumed, and no operation that returns, other than
\* skip(0), leaves it unchanged.
C17_OnlySkipZeroStays ==
    [][/\ bufferPosition' >= bufferPosition
       /\ status' = "running" =>
            /\ AdvancedAsConsumed
            /\ bufferPosition' = bufferPosition
                  => (lastOp'.op = "skip" /\ lastOp'.arg = 0)]_vars

\* C17, amended: the position never decreases, every operation advances it by
\* the number of bytes it consumed, and no operation that returns, other than
\* skip(0) and readString(0), leaves it unchanged.
C17_ForwardOnly ==
    [][/\ bufferPosition' >= bufferPosition
       /\ status' = "running" =>
            /\ AdvancedAsConsumed
            /\ bufferPosition' = bufferPosition
                  => (lastOp'.op \in {"skip", "readString"} /\ lastOp'.arg = 0)]_vars

\* readString(0) has returned, after an earlier operation had moved the
\* position, and the position is where it was
C17_EmptyStringRead ==
    /\ status = "running"
    /\ lastOp.op = "readString"
    /\ lastOp.arg = 0
    /\ lastOp.from > 0
    /\ lastOp.to = lastOp.from
    /\ bufferPosition = lastOp.from

(***************************************************************************)
(* The passes and the fields they leave alone (Spec)                       *)
(***************************************************************************)
\* the passes that have run before the pass p, in the order of the constructor
PassesBefore(p) ==
    CASE p = "version" -> {}
      [] p = "attributes" -> {"version"}
      [] p = "lyrics" -> {"version", "attributes"}
      [] p = "pageSetup" -> {"version", "attributes", "lyrics"}
      [] p = "channels" -> {"version", "attributes", "lyrics", "pageSetup"}
      [] p = "headers" -> {"version", "attributes", "lyrics", "pageSetup", "channels"}
      [] p = "tracks" -> {"version", "attributes", "lyrics", "pageSetup", "channels",
                          "headers"}
      [] OTHER -> {"version", "attributes", "lyrics", "pageSetup", "channels", "headers",
                   "tracks"}

\* a measure header without the two members the body pass fills in
HeaderAsRead(h) == [h EXCEPT !.start = 0, !.tempo = [value |-> 0]]

\* a track without the measures the body pass gives it
TrackAsRead(t) == [t EXCEPT !.measures = <<>>]

\* C18: a step of a later pass changes no document field an earlier pass has
\* decoded, except MeasureHeader.start, MeasureHeader.tempo, the channels
\* appended after slot 63 (and the measures the body pass gives the tracks);
\* so the global key signature stays as the metadata pass read it whatever flags
\* the measure headers carry, and the track pass leaves slots 0..63 as they are.
C18_LifecycleFrame ==
    [][/\ "version" \in PassesBefore(pc) =>
             <<version, versionIndex, major, minor>>' = <<version, versionIndex, major, minor>>
       /\ "attributes" \in PassesBefore(pc) =>
             <<attributes, comments>>' = <<attributes, comments>>
       /\ "lyrics" \in PassesBefore(pc) => <<lyricTrack, lyric>>' = <<lyricTrack, lyric>>
       /\ "pageSetup" \in PassesBefore(pc) =>
             /\ tempoValue' = tempoValue
             /\ globalKeySignature' = globalKeySignature
       /\ "channels" \in PassesBefore(pc) =>
             /\ <<measures, trackCount>>' = <<measures, trackCount>>
             /\ Len(channels') >= Len(channels)
             /\ \A k \in 1..Len(channels) : channels'[k] = channels[k]
       /\ "headers" \in PassesBefore(pc) =>
             /\ Len(measureHeaders') = Len(measureHeaders)
             /\ \A i \in 1..Len(measureHeaders) :
                  HeaderAsRead(measureHeaders'[i]) = HeaderAsRead(measureHeaders[i])
       /\ "tracks" \in PassesBefore(pc) =>
             /\ channels' = channels
             /\ Len(tracks') = Len(tracks)
             /\ \A j \in 1..Len(tracks) : TrackAsRead(tracks'[j]) = TrackAsRead(tracks[j])]_vars

(***************************************************************************)
(* readStringByte (SpecCursor)                                             *)
(***************************************************************************)
\* the prefix byte of the readStringByte that was the last operation
PrefixRead == fileBuffer[lastOp.from + 1]

\* C19: readStringByte(span) with span > 0 and prefix byte p advances the cursor
\* by 1 + span bytes and returns the first min(p, span) bytes of the span (the
\* whole span when p exceeds it); with span = 0 it advances by 1 + p bytes and
\* returns those p bytes.  Stated of a call whose reads lie inside the buffer.
C19_ConsumedAndKept ==
    (/\ lastOp.op = "readStringByte"
     /\ status = "running"
     /\ lastOp.readTo <= Len(fileBuffer)) =>
       /\ lastOp.arg > 0 =>
             /\ lastOp.to = lastOp.from + 1 + lastOp.arg
             /\ lastOp.strLen = Min(PrefixRead, lastOp.arg)
       /\ lastOp.arg = 0 =>
             /\ lastOp.to = lastOp.from + 1 + PrefixRead
             /\ lastOp.strLen = PrefixRead
       /\ lastOp.str = SubSeq(fileBuffer, lastOp.from + 2, lastOp.from + 1 + lastOp.strLen)

\* readStringByte(2) was called on the prefix 255: 3 bytes consumed, 2 kept
C19_PrefixAboveSpan ==
    /\ lastOp.op = "readStringByte"
    /\ status = "running"
    /\ lastOp.readTo <= Len(fileBuffer)
    /\ lastOp.arg = 2
    /\ PrefixRead = 255
    /\ lastOp.to = lastOp.from + 3
    /\ lastOp.strLen = 2

\* readStringByte(2) was called on the prefix 1: 3 bytes consumed, 1 kept
C19_PrefixBelowSpan ==
    /\ lastOp.op = "readStringByte"
    /\ status = "running"
    /\ lastOp.readTo <= Len(fileBuffer)
    /\ lastOp.arg = 2
    /\ PrefixRead = 1
    /\ lastOp.to = lastOp.from + 3
    /\ lastOp.str = <<fileBuffer[lastOp.from + 2]>>

\* readStringByte(0) was called on the prefix 1: 2 bytes consumed, 1 kept
C19_SpanZero ==
    /\ lastOp.op = "readStringByte"
    /\ status = "running"
    /\ lastOp.readTo <= Len(fileBuffer)
    /\ lastOp.arg = 0
    /\ PrefixRead = 1
    /\ lastOp.to = lastOp.from + 2
    /\ lastOp.strLen = 1

(***************************************************************************)
(* The repeat-close count (Spec)                                           *)
(***************************************************************************)
\* C20: for every byte v read under header flag 0x08 the header's repeatClose
\* is the integer (v & 0xFF) - 1, a value in -1..254.
C20_RepeatCloseIsByteMinusOne ==
    /\ Len(loc.headers) = Len(measureHeaders)
    /\ \A i \in 1..Len(measureHeaders) :
         Bit(loc.headers[i].flags, 8) =>
            /\ measureHeaders[i].repeatClose = loc.headers[i].repeatClose - 1
            /\ measureHeaders[i].repeatClose \in (-1)..254

(***************************************************************************)
(* SpecKey: readKeySignature on a buffer of one byte, for every byte.      *)
(***************************************************************************)
InitKey ==
    /\ fileBuffer \in {<<b>> : b \in 0..255}
    /\ bufferPosition = 0
    /\ status = "running"
    /\ lastOp = NoOp
    /\ DocUnset

\* readKeySignature() at the start of the buffer
OpReadKeySignature ==
    /\ status = "running"
    /\ lastOp.op = "none"
    /\ lastOp' = [op |-> "readKeySignature",
                  byte |-> readByte(fileBuffer, bufferPosition, 0).val,
                  val |-> readKeySignature(fileBuffer[bufferPosition + 1])]
    /\ bufferPosition' = readByte(fileBuffer, bufferPosition, 0).pos
    /\ UNCHANGED <<fileBuffer, status>>
    /\ UNCHANGED docVars

NextKey == OpReadKeySignature

SpecKey == InitKey /\ [][NextKey]_vars

\* C21: for every signed byte v, readKeySignature consumes one byte and returns
\* v when v >= 0 and the integer 7 - v (in 8..135) when v < 0, so that the key
\* signature is never negative.
C21_KeySignatureTransform ==
    lastOp.op = "readKeySignature" =>
       /\ bufferPosition = 1
       /\ lastOp.val = IF lastOp.byte >= 0 THEN lastOp.byte ELSE 7 - lastOp.byte
       /\ lastOp.val >= 0

(***************************************************************************)
(* The parameters of an appended channel (SpecTracks)                      *)
(***************************************************************************)
\* C22: the channel readChannel appends for a track carries exactly two
\* parameters, "gm channel 1" and "gm channel 2", whose values are the decimal
\* renderings of gmChannel1 and of gmChannel2 (of gmChannel1 when that is 9),
\* each with as many characters as the rendering needs.
C22_DecimalParameters ==
    \A t \in 1..Len(tracks) :
       (loc.gm[t] >= 0 /\ loc.gm[t] < ChannelSlots) =>
          LET c == channels[tracks[t].channelId]
          IN  /\ Len(c.parameters) = 2
              /\ c.parameters[1].key = "gm channel 1"
              /\ c.parameters[2].key = "gm channel 2"
              /\ c.parameters[1].value = Decimal(loc.gm[t])
              /\ c.parameters[2].value =
                    Decimal(IF loc.gm[t] = 9 THEN loc.gm[t] ELSE loc.gm2[t])

(***************************************************************************)
(* SpecVoices: one measure of one six-string track whose two voices hold   *)
(* up to MaxVoiceBeats beats each, taken from VoiceBeats.                  *)
(***************************************************************************)
MaxVoiceBeats == 2

\* a quarter with a note; a quarter of a septuplet (tuplet code 7: 960 * 4 / 7
\* ticks) with a note; a beat without the type byte and without notes; a rest
\* (flag 0x40, type 2)
VoiceBeats ==
    {NoteBeat(Quarter, String1, <<FretNote(7)>>),
     [NoteBeat(Quarter, String2, <<FretNote(5)>>) EXCEPT !.flags = 32, !.tuplet = 7],
     RestBeat(Eighth),
     [RestBeat(Eighth) EXCEPT !.flags = 64, !.beatType = 2]}

VoiceProfile ==
    [files |-> {VersionField(24, V500)},
     attributes |-> {EmptyAttributes},
     lyrics |-> {SomeLyrics},
     pages |-> {SomePage},
     banks |-> {SomeBank},
     counts |-> {[measures |-> 1, trackCount |-> 1]},
     headers |-> {PlainHeader},
     tracks |-> {GuitarTrack},
     beatCounts |-> 0..MaxVoiceBeats,
     beats |-> VoiceBeats,
     ub |-> {0}]

SpecVoices == InitDoc(VoiceProfile) /\ [][NextDoc(VoiceProfile)]_vars

\* the measure readMeasure is reading, before and after the step
MeasureNow == tracks[loc.j + 1].measures[Len(tracks[loc.j + 1].measures)]

MeasureNext == tracks'[loc.j + 1].measures[Len(tracks'[loc.j + 1].measures)]

\* the notes voice v holds in the beat of the measure that starts at start (none
\* when the measure has no such beat)
NotesAt(measure, start, v) ==
    LET hits == {b \in 1..Len(measure.beats) : measure.beats[b].start = start}
    IN  IF hits = {} THEN <<>> ELSE measure.beats[MinOf(hits)].voices[v].notes

\* the duration readBeat stored in voice v of the beat that starts at start
DurationAt(measure, start, v) ==
    measure.beats[MinOf({b \in 1..Len(measure.beats) : measure.beats[b].start = start})]
      .voices[v].duration

\* C23: each voice starts its running start at the measure's start; a call of
\* readBeat advances the running start by the beat's decoded duration exactly
\* when the call appended at least one note to the voice, and by 0 otherwise;
\* the running start never decreases within a voice.
C23_VoiceStartCursor ==
    [][/\ (pc = "body" /\ loc.at = "voice") => loc'.vstart = MeasureNow.start
       /\ (pc = "body" /\ loc.at = "beat" /\ status' = "running") =>
            /\ loc'.vstart >= loc.vstart
            /\ IF Len(NotesAt(MeasureNext, loc.vstart, loc.voice + 1))
                   > Len(NotesAt(MeasureNow, loc.vstart, loc.voice + 1))
               THEN loc'.vstart * DurationAt(MeasureNext, loc.vstart, loc.voice + 1).d
                      = loc.vstart * DurationAt(MeasureNext, loc.vstart, loc.voice + 1).d
                          + DurationAt(MeasureNext, loc.vstart, loc.voice + 1).n
               ELSE loc'.vstart = loc.vstart]_vars

(***************************************************************************)
(* SpecStrings: one measure of one track with 0 to 7 strings; the first    *)
(* voice holds one quarter beat with any of the 256 string masks, the      *)
(* second voice holds no beat.                                             *)
(***************************************************************************)
StringTrack(c) == [GuitarTrack EXCEPT !.stringCount = c]

StringsProfile ==
    [files |-> {VersionField(24, V500)},
     attributes |-> {EmptyAttributes},
     lyrics |-> {SomeLyrics},
     pages |-> {SomePage},
     banks |-> {SomeBank},
     counts |-> {[measures |-> 1, trackCount |-> 1]},
     headers |-> {PlainHeader},
     tracks |-> {StringTrack(c) : c \in 0..7},
     beatCounts |-> {1},
     beatCounts2 |-> {0},
     beats |-> {NoteBeat(Quarter, mask, <<FretNote(7)>>) : mask \in 0..255},
     ub |-> {0}]

SpecStrings == InitDoc(StringsProfile) /\ [][NextDoc(StringsProfile)]_vars

RECURSIVE StringsOf(_, _, _)
\* the string numbers s, s + 1, .. 7, ascending, that exist on a track with c
\* strings and whose bit 7 - s is set in the mask
StringsOf(mask, c, s) ==
    IF s > 7 THEN <<>>
    ELSE (IF s <= c /\ Bit(mask, Pow2(7 - s)) THEN <<s>> ELSE <<>>)
           \o StringsOf(mask, c, s + 1)

\* the notes of voice 1 of the only beat of the measure being read
NotesRead == MeasureNext.beats[1].voices[1].notes

\* C24: readBeat decodes one note for exactly the bits i in 0..6 of the string
\* mask that are set and have 6 - i < c, c the number of strings of the track;
\* the note of bit i is bound to string number 7 - i and the notes are appended
\* in ascending string number; nothing else (bit 7, a bit without a string)
\* decodes a note or consumes note bytes (4 for each note of these files, 5 for
\* the rest of the beat); the voice's duration is the beat's (960 ticks) also
\* when no note is decoded.
C24_StringMaskMapping ==
    [][(pc = "body" /\ loc.at = "beat" /\ status' = "running") =>
         /\ Len(MeasureNext.beats) = 1
         /\ [k \in 1..Len(NotesRead) |-> NotesRead[k].string]
              = StringsOf(loc'.beat.stringFlags, Len(tracks[1].strings), 1)
         /\ bufferPosition' - bufferPosition
              = 5 + 4 * Len(StringsOf(loc'.beat.stringFlags, Len(tracks[1].strings), 1))
         /\ MeasureNext.beats[1].voices[1].duration = [n |-> 960, d |-> 1]]_vars

\* on a track with four strings the mask 0xAA (bits 7, 5, 3, 1) has given the
\* notes of strings 2 and 4
C24_MaskOnFourStrings ==
    /\ pc = "done"
    /\ status = "running"
    /\ Len(tracks[1].strings) = 4
    /\ loc.beat.stringFlags = 170
    /\ Len(tracks[1].measures[1].beats) = 1
    /\ Len(tracks[1].measures[1].beats[1].voices[1].notes) = 2
    /\ tracks[1].measures[1].beats[1].voices[1].notes[1].string = 2
    /\ tracks[1].measures[1].beats[1].voices[1].notes[2].string = 4

(***************************************************************************)
(* SpecTempo: up to MaxTempoMeasures measures of two tracks; the first     *)
(* voice of a measure holds at most one beat, with or without a mix change *)
(* whose tempo is negative, zero or positive.                              *)
(***************************************************************************)
MaxTempoMeasures == 2

MixBeat(tempo) ==
    [NoteBeat(Quarter, String1, <<FretNote(7)>>) EXCEPT !.flags = 16, !.tempo = tempo]

TempoBeats ==
    {MixBeat(-1), MixBeat(0), MixBeat(90),
     [RestBeat(Quarter) EXCEPT !.flags = 16, !.tempo = 150]}

TempoProfile ==
    [files |-> {VersionField(24, V500)},
     attributes |-> {EmptyAttributes},
     lyrics |-> {SomeLyrics},
     pages |-> {SomePage},
     banks |-> {SomeBank},
     counts |-> {[measures |-> m, trackCount |-> 2] : m \in 1..MaxTempoMeasures},
     headers |-> {PlainHeader},
     tracks |-> {GuitarTrack},
     beatCounts |-> {0, 1},
     beatCounts2 |-> {0},
     beats |-> TempoBeats,
     ub |-> {0}]

SpecTempo == InitDoc(TempoProfile) /\ [][NextDoc(TempoProfile)]_vars

\* the mix-change tempos that are not negative, of the measures up to index i,
\* in the order they were read
TemposUpTo(i) ==
    SelectSeq(loc.mix, LAMBDA m : m.i <= i /\ m.tempo >= 0)

\* the tempo the body pass has after the tracks of the measure of index i
TempoAfter(i) ==
    IF TemposUpTo(i) = <<>> THEN tempoValue
    ELSE TemposUpTo(i)[Len(TemposUpTo(i))].tempo

\* C25: the running tempo is one value for the whole loop over measures and
\* tracks: it is the document tempo until a mix change with a tempo >= 0 is
\* read, then the last such tempo, and it is never set back; the header of
\* every finished measure i holds the last mix-change tempo >= 0 read in any
\* track of the measures 0..i, or the document tempo when there is none.
C25_RunningTempo ==
    (pc \in {"body", "done"} /\ status = "running" /\ loc.at # "idle") =>
       /\ loc.tempo.value = TempoAfter(loc.i)
       /\ \A i \in 1..Len(measureHeaders) :
            i <= loc.i => measureHeaders[i].tempo.value = TempoAfter(i - 1)

\* a tempo of 0 read in the first measure is the tempo of both headers, a
\* negative one read in the second measure changes nothing
C25_ZeroTempoKept ==
    /\ pc = "done"
    /\ status = "running"
    /\ loc.mix = <<[i |-> 0, tempo |-> 90], [i |-> 0, tempo |-> 0], [i |-> 1, tempo |-> -1]>>
    /\ tempoValue = 120
    /\ measureHeaders[1].tempo.value = 0
    /\ measureHeaders[2].tempo.value = 0

(***************************************************************************)
(* SpecBend: readBend at the start of a buffer that holds the five skipped *)
(* bytes, a point count of -1 to MaxBendPoints and that many points.       *)
(***************************************************************************)
TGEFFECTBEND_MAX_POSITION_LENGTH == 12
TGEFFECTBEND_SEMITONE_LENGTH == 1
GP_BEND_SEMITONE == 25
GP_BEND_POSITION == 60

MaxBendPoints == 2

\* the little-endian bytes of any int32 v, in two's complement
Int32LE(v) ==
    LET m == IF v < 0 THEN -(v + 1) ELSE v
    IN  [i \in 1..4 |-> IF v < 0 THEN 255 - ((m \div Pow2(8 * (i - 1))) % 256)
                                  ELSE (m \div Pow2(8 * (i - 1))) % 256]

\* int32 * int for a factor k in 0..255, as two's complement keeps it: the low
\* 32 bits of the product, computed byte by byte
MulInt32(x, k) ==
    LET b == Int32LE(x)
        c0 == b[1] * k
        c1 == b[2] * k + (c0 \div 256)
        c2 == b[3] * k + (c1 \div 256)
        c3 == b[4] * k + (c2 \div 256)
    IN  readInt(<<c0 % 256, c1 % 256, c2 % 256, c3 % 256>>, 0, 0).val

\* the product of x and k is outside int32: signed overflow
MulOverflows(x, k) ==
    /\ k > 1
    /\ \/ x > 2147483647 \div k
       \/ x < -((2147483647 \div k) + (IF 2147483647 % k = k - 1 THEN 1 ELSE 0))

\* lines 801-807: the BendPoint of a raw position and value
bendPoint(bendPosition, bendValue) ==
    [pointPosition |-> Round(Rat(MulInt32(bendPosition, TGEFFECTBEND_MAX_POSITION_LENGTH),
                                 GP_BEND_POSITION)),
     pointValue |-> Round(Rat(MulInt32(bendValue, TGEFFECTBEND_SEMITONE_LENGTH),
                              GP_BEND_SEMITONE))]

RECURSIVE readBendPoints(_, _, _, _, _, _)
\* lines 797-809: the loop over the points; overflow tells that a product of
\* the loop left int32
readBendPoints(buf, pos, i, numPoints, points, overflow) ==
    IF i >= numPoints THEN [points |-> points, pos |-> pos, overflow |-> overflow]
    ELSE readBendPoints(buf, pos + 9, i + 1, numPoints,
                        Append(points, bendPoint(readInt(buf, pos, 0).val,
                                                 readInt(buf, pos + 4, 0).val)),
                        \/ overflow
                        \/ MulOverflows(readInt(buf, pos, 0).val,
                                        TGEFFECTBEND_MAX_POSITION_LENGTH)
                        \/ MulOverflows(readInt(buf, pos + 4, 0).val,
                                        TGEFFECTBEND_SEMITONE_LENGTH))

\* a NoteEffect as NoteEffect() leaves its bend: no point
NewEffect == [bend |-> [points |-> <<>>]]

\* lines 792-812
readBend(effect, buf, pos) ==
    LET r == readBendPoints(buf, pos + 9, 0, readInt(buf, pos + 5, 0).val, <<>>, FALSE)
    IN  [effect |-> IF Len(r.points) > 0 THEN [effect EXCEPT !.bend = [points |-> r.points]]
                    ELSE effect,
         pos |-> r.pos,
         overflow |-> r.overflow]

RawPositions == {2, 3, 60, -3, 178956970, 178956971, -178956971}

RawValues == {12, 13, -100}

RawPoints == [position : RawPositions, value : RawValues]

RECURSIVE PointBytes(_)
PointBytes(ps) ==
    IF ps = <<>> THEN <<>>
    ELSE Int32LE(Head(ps).position) \o Int32LE(Head(ps).value) \o <<0>>
           \o PointBytes(Tail(ps))

BendInputs ==
    {[n |-> n, points |-> <<>>] : n \in {-1, 0}}
      \cup UNION {{[n |-> n, points |-> ps] : ps \in [1..n -> RawPoints]} :
                  n \in 1..MaxBendPoints}

BendBuffer(in) == Zeros(5) \o Int32LE(in.n) \o PointBytes(in.points)

InitBend ==
    /\ fileBuffer \in {BendBuffer(in) : in \in BendInputs}
    /\ bufferPosition = 0
    /\ status = "running"
    /\ lastOp = NoOp
    /\ DocUnset

\* readBend(effect) on a fresh NoteEffect, at the start of the buffer.  A signed
\* overflow is undefined: the call may keep the low 32 bits or end the program.
OpReadBend ==
    /\ status = "running"
    /\ lastOp.op = "none"
    /\ \E dies \in BOOLEAN :
         \E r \in {readBend(NewEffect, fileBuffer, bufferPosition)} :
           /\ dies => r.overflow
           /\ IF dies
              THEN /\ status' = "crashed"
                   /\ UNCHANGED <<bufferPosition, lastOp>>
              ELSE /\ status' = "running"
                   /\ bufferPosition' = r.pos
                   /\ lastOp' = [op |-> "readBend",
                                 n |-> readInt(fileBuffer, bufferPosition + 5, 0).val,
                                 effect |-> r.effect]
    /\ UNCHANGED fileBuffer
    /\ UNCHANGED docVars

NextBend == OpReadBend

SpecBend == InitBend /\ [][NextBend]_vars

\* the raw position and value of point k (from 1) of the buffer
RawPosition(k) == readInt(fileBuffer, 9 * k, 0).val

RawValue(k) == readInt(fileBuffer, 9 * k + 4, 0).val

\* C26: readBend skips 5 bytes, reads the point count n and 9 bytes for each
\* point; the effect has a bend exactly when n >= 1, and that bend has the n
\* points of the stream in their order, each with
\* position = round(rawPosition * 12 / 60) and value = round(rawValue * 1 / 25).
C26_BendDecoding ==
    /\ status = "running"
    /\ lastOp.op = "readBend" =>
         /\ bufferPosition = 9 + 9 * (IF lastOp.n > 0 THEN lastOp.n ELSE 0)
         /\ Len(lastOp.effect.bend.points) = (IF lastOp.n > 0 THEN lastOp.n ELSE 0)
         /\ \A k \in 1..Len(lastOp.effect.bend.points) :
              /\ lastOp.effect.bend.points[k].pointPosition = Round(Rat(RawPosition(k), 5))
              /\ lastOp.effect.bend.points[k].pointValue = Round(Rat(RawValue(k), 25))

(***************************************************************************)
(* SpecTies: one measure of one track; the first voice holds up to         *)
(* MaxTieBeats - 1 beats and the second up to MaxTieBeats, each a quarter  *)
(* or an eighth with a fretted note on string 1, or a quarter with a tied  *)
(* note on string 1.                                                       *)
(***************************************************************************)
MaxTieBeats == 3

TieBeat == NoteBeat(Quarter, String1, <<TiedNote>>)

TieBeats ==
    {NoteBeat(Quarter, String1, <<FretNote(5)>>),
     NoteBeat(Eighth, String1, <<FretNote(9)>>),
     TieBeat}

TieProfile ==
    [files |-> {VersionField(24, V500)},
     attributes |-> {EmptyAttributes},
     lyrics |-> {SomeLyrics},
     pages |-> {SomePage},
     banks |-> {SomeBank},
     counts |-> {[measures |-> 1, trackCount |-> 1]},
     headers |-> {PlainHeader},
     tracks |-> {GuitarTrack},
     beatCounts |-> 0..(MaxTieBeats - 1),
     beatCounts2 |-> 0..MaxTieBeats,
     beats |-> TieBeats,
     ub |-> {0}]

SpecTies == InitDoc(TieProfile) /\ [][NextDoc(TieProfile)]_vars

\* the fret values of the notes on string s in beat b of the measure
ValuesOn(measure, b, s) ==
    {measure.beats[b].voices[v].notes[n].value :
       <<v, n>> \in {q \in (1..2) \X (1..7) :
                      /\ q[2] <= Len(measure.beats[b].voices[q[1]].notes)
                      /\ measure.beats[b].voices[q[1]].notes[q[2]].string = s}}

\* the beats of the measure that hold a note on string s
BeatsOn(measure, s) == {b \in 1..Len(measure.beats) : ValuesOn(measure, b, s) # {}}

\* the fret values on string s at the greatest start of the measure that has a
\* note on string s
LatestValuesOn(measure, s) ==
    UNION {ValuesOn(measure, b, s) :
             b \in {c \in BeatsOn(measure, s) :
                      \A d \in BeatsOn(measure, s) :
                         measure.beats[d].start <= measure.beats[c].start}}

\* the note the call of readBeat that is being taken has appended
NoteRead ==
    NotesAt(MeasureNext, loc.vstart, loc.voice + 1)
      [Len(NotesAt(MeasureNext, loc.vstart, loc.voice + 1))]

\* C27: a tied note on string s takes the fret value of the note on string s
\* that has the greatest start among the notes of the track decoded before it,
\* whichever voice holds that note (here: one measure, string 1).
C27_TieTakesLatestStart ==
    [][(/\ pc = "body" /\ loc.at = "beat" /\ status' = "running"
        /\ loc'.beat = TieBeat
        /\ BeatsOn(MeasureNow, 1) # {})
         => NoteRead.value \in LatestValuesOn(MeasureNow, 1)]_vars

\* C28: in the decoded document a voice is flagged empty exactly when it holds
\* no note.
C28_EmptyFlagIffNoNotes ==
    (pc = "done" /\ status = "running") =>
       \A t \in 1..Len(tracks) :
          \A m \in 1..Len(tracks[t].measures) :
             \A b \in 1..Len(tracks[t].measures[m].beats) :
                \A v \in 1..Len(tracks[t].measures[m].beats[b].voices) :
                   tracks[t].measures[m].beats[b].voices[v].empty
                     <=> (tracks[t].measures[m].beats[b].voices[v].notes = <<>>)

(***************************************************************************)
(* SpecChord: readChord at the start of a buffer that holds one chord, for *)
(* a track of 0 to 7 strings.                                              *)
(***************************************************************************)
RECURSIVE writeFrets(_, _, _, _, _)
\* lines 582-586: the loop over i = 0 .. 6 on a track of size strings.  chord
\* holds the fret list and writes, the indices i that chord.frets[i] = fret was
\* executed with; a write at an index outside the list changes none of its
\* entries
writeFrets(chord, i, size, buf, pos) ==
    IF i >= 7 THEN [chord |-> chord, pos |-> pos]
    ELSE writeFrets(IF i < size
                    THEN [frets |-> IF i < Len(chord.frets)
                                    THEN [chord.frets EXCEPT ![i + 1] = readInt(buf, pos, 0).val]
                                    ELSE chord.frets,
                          writes |-> chord.writes \cup {i}]
                    ELSE chord,
                    i + 1, size, buf, pos + 4)

\* lines 573-590 on a track of size strings: the chord built, whether it was
\* given to the beat, the position reached, and whether a write left the list
readChord(size, buf, pos) ==
    LET name == readStringByte(buf, pos + 17, 21, 0)
        r == writeFrets([frets |-> [Zeros(6) EXCEPT ![1] = readInt(buf, name.pos + 4, 0).val],
                         writes |-> {0}],
                        0, size, buf, name.pos + 8)
    IN  [name |-> name.str,
         frets |-> r.chord.frets,
         writes |-> r.chord.writes,
         attached |-> size > 0,
         pos |-> r.pos + 32,
         outside |-> \E i \in r.chord.writes : i >= Len(r.chord.frets)]

ChordFrets == [1..7 -> {-1, 5}]

ChordPrefixes == {0, 5, 21, 30}

RECURSIVE IntsLE(_)
IntsLE(s) == IF s = <<>> THEN <<>> ELSE Int32LE(Head(s)) \o IntsLE(Tail(s))

ChordBuffer(p, first, frets) ==
    Zeros(17) \o <<p>> \o Zeros(21) \o Zeros(4) \o Int32LE(first) \o IntsLE(frets)
      \o Zeros(32)

InitChord ==
    /\ fileBuffer \in {ChordBuffer(p, 3, frets) : p \in ChordPrefixes, frets \in ChordFrets}
    /\ bufferPosition = 0
    /\ status = "running"
    /\ lastOp = NoOp
    /\ DocUnset

\* readChord(strings, beat) for a track of size strings, at the start of the
\* buffer.  A write outside the fret list is undefined: the call goes on with
\* the list as it is, or the program ends.
OpReadChord ==
    /\ status = "running"
    /\ lastOp.op = "none"
    /\ \E size \in 0..7, dies \in BOOLEAN :
         \E r \in {readChord(size, fileBuffer, bufferPosition)} :
           /\ dies => r.outside
           /\ lastOp' = [op |-> "readChord", size |-> size, frets |-> r.frets,
                         writes |-> r.writes, attached |-> r.attached]
           /\ IF dies
              THEN /\ status' = "crashed"
                   /\ UNCHANGED bufferPosition
              ELSE /\ status' = "running"
                   /\ bufferPosition' = r.pos
    /\ UNCHANGED fileBuffer
    /\ UNCHANGED docVars

NextChord == OpReadChord

SpecChord == InitChord /\ [][NextChord]_vars

\* C29: for a track of 0 to 7 strings readChord gives the chord a fret list of
\* exactly 6 entries and writes chord.frets[i] only for i < 6; it consumes the
\* same number of bytes (107) whatever the name prefix and the string count,
\* and the beat gets the chord only when the track has at least one string.
C29_ChordFretBounds ==
    lastOp.op = "readChord" =>
       /\ Len(lastOp.frets) = 6
       /\ \A i \in lastOp.writes : i < 6
       /\ status = "running"
       /\ bufferPosition = 107
       /\ lastOp.attached <=> lastOp.size >= 1

(***************************************************************************)
(* SpecStarts: one measure of one track; a voice holds up to MaxStartBeats *)
(* beats, each a quarter with a note, an eighth rest, or a note of         *)
(* duration byte 0xEB (-21), which lasts 960 * 2^21 ticks.                 *)
(***************************************************************************)
MaxStartBeats == 3

\* the duration byte 0xEB, -21 as a signed byte
LongNote == 256 - 21

StartBeats ==
    {NoteBeat(Quarter, String1, <<FretNote(7)>>),
     NoteBeat(LongNote, String2, <<FretNote(5)>>),
     RestBeat(Eighth)}

StartProfile ==
    [files |-> {VersionField(24, V500)},
     attributes |-> {EmptyAttributes},
     lyrics |-> {SomeLyrics},
     pages |-> {SomePage},
     banks |-> {SomeBank},
     counts |-> {[measures |-> 1, trackCount |-> 1]},
     headers |-> {PlainHeader},
     tracks |-> {GuitarTrack},
     beatCounts |-> 0..MaxStartBeats,
     beatCounts2 |-> 0..(MaxStartBeats - 1),
     beats |-> StartBeats,
     ub |-> {0}]

SpecStarts == InitDoc(StartProfile) /\ [][NextDoc(StartProfile)]_vars

\* C30: while and after the measures are read, no two beats of a measure have
\* the same start, every beat has exactly two voices and starts at or after
\* the start of its measure (so a beat read at a start the measure already
\* holds went into the beat that is there).
C30_BeatsKeyedByStart ==
    (pc \in {"body", "done"}) =>
       \A t \in 1..Len(tracks) :
          \A m \in 1..Len(tracks[t].measures) :
             \A b \in 1..Len(tracks[t].measures[m].beats) :
                /\ Len(tracks[t].measures[m].beats[b].voices) = 2
                /\ tracks[t].measures[m].beats[b].start >= tracks[t].measures[m].start
                /\ \A c \in 1..Len(tracks[t].measures[m].beats) :
                     tracks[t].measures[m].beats[c].start
                       = tracks[t].measures[m].beats[b].start => c = b
====
